---- MODULE Spec2Model ----
(***************************************************************************)
(* Training-job orchestration of medlitbot: the MLModel and TrainingJob    *)
(* rows, the start_training / stop-training / optimize endpoints, the      *)
(* start_model_training and optimize_hyperparameters Celery tasks and the  *)
(* stuck-job sweep.  Every database query or save() is one atomic step;    *)
(* a Django save() without update_fields writes the whole in-memory row.   *)
(***************************************************************************)
EXTENDS Integers, Sequences, FiniteSets, TLC

\* ---- bounds ----
NumModels == 1
MaxTasks == 2
MaxRequests == 1
MaxTasksFair == 1
MaxRacingRequests == 2

\* celery worker --concurrency=1 --pool=solo
CELERY_CONCURRENCY == 1

\* timedelta(hours=3) of the periodic sweep, --timeout-hours default of the command
PERIODIC_TIMEOUT_HOURS == 3
COMMAND_TIMEOUT_HOURS == 2
\* a job's age is kept as the set of these thresholds its created_at has fallen behind
TimeoutHours == {PERIODIC_TIMEOUT_HOURS, COMMAND_TIMEOUT_HOURS}

ModelIds == 1..NumModels
TaskIds == 1..MaxTasks
RequestSlots == 1..MaxRacingRequests

\* ---- TrainingJob.JOB_STATUS_CHOICES / MLModel.STATUS_CHOICES ----
JOB_STATUS_CHOICES == {"pending", "running", "completed", "failed", "cancelled"}
STATUS_CHOICES == {"created", "training", "trained", "failed", "evaluating", "deployed", "archived"}
ActiveStatuses == {"pending", "running"}
TerminalStatuses == {"completed", "failed", "cancelled"}

\* the three shapes of dataset the worker distinguishes
DatasetKinds == {"empty", "unlabelled", "ok"}

\* ---- rows ----
NoModel == [status |-> "none", is_trained |-> FALSE, model_path |-> FALSE]
NewMLModel == [status |-> "created", is_trained |-> FALSE, model_path |-> FALSE]

NoJob ==
  [model |-> 0, celery_task_id |-> 0, status |-> "none", progress_percentage |-> 0,
   completed_at |-> FALSE, error_message |-> "", traceback |-> FALSE]
NewTrainingJob(m, t) ==
  [model |-> m, celery_task_id |-> t, status |-> "pending", progress_percentage |-> 0,
   completed_at |-> FALSE, error_message |-> "", traceback |-> FALSE]

\* ---- processes ----
NoTask ==
  [kind |-> "none", model |-> 0, pc |-> "none", model_row |-> NoModel,
   training_job |-> NoJob, job_id |-> 0, exc |-> "", result |-> ""]
IdleRequest == [pc |-> "idle", model |-> 0, model_row |-> NoModel, task |-> 0, outcome |-> ""]
IdleStop ==
  [pc |-> "idle", via |-> "", model |-> 0, model_row |-> NoModel,
   training_job |-> NoJob, job_id |-> 0, outcome |-> ""]
IdleSweep ==
  [pc |-> "idle", hours |-> 0, inspect_failed |-> FALSE, active_task_ids |-> {},
   stuck_jobs |-> <<>>]
IdlePrediction ==
  [pc |-> "idle", variant |-> "", all_labels |-> <<>>, threshold |-> 0,
   probs |-> <<>>, trad_probs |-> <<>>, weights |-> <<>>,
   response_labels |-> {}, text |-> <<>>, jitter |-> <<>>, title_len |-> 0,
   model_exists |-> FALSE, result |-> <<>>, status |-> "", fallback |-> FALSE]
IdleStudy == [pc |-> "idle"]
IdleStore == [pc |-> "idle"]
IdleCallback == [pc |-> "idle"]
IdleClassify == [pc |-> "idle"]
IdleFactory == [pc |-> "idle"]

VARIABLES
  models,      \* table MLModel: model id -> row
  jobs,        \* table TrainingJob: sequence of rows, job id = index
  age,         \* job id -> the greatest h in TimeoutHours with created_at < now - h hours, or 0
  dataset,     \* model id -> kind of dataset the model points at
  artifacts,   \* model ids for which a trained artifact is on disk
  tasks,       \* Celery tasks by task id: the message and the worker's locals
  limits,      \* fixed per run: task ids available, tasks executed at once, requests at once
  train_req,   \* the start_training requests in flight, by request slot
  opt_req,     \* the optimize_model_hyperparameters request in flight
  stop,        \* the stop-training request / command in flight
  sweep,       \* the cleanup_stuck_training_jobs pass in flight
  prediction,  \* one call of a predict method or of predict_domains: inputs, position, result
  study,       \* the optuna studies by name and the optimize() call in flight
  store,       \* one save_model / load_model round trip: the files on disk and the locals
  callback,    \* one call of TrainingProgressCallback.on_epoch_end: inputs, position, effects
  classify,    \* one classify_single / classify_batch request: inputs, position, response
  factory      \* one call of create_model: family, keyword arguments, outcome

vars == <<models, jobs, age, dataset, limits, prediction, study, store, callback, classify, factory, artifacts, tasks, train_req, opt_req, stop, sweep>>

\* ---- helpers over the tables ----
JobIds == 1..Len(jobs)
JobsOf(m) == {j \in JobIds : jobs[j].model = m}
TheJobOf(m) == CHOOSE j \in JobsOf(m) : TRUE
Dispatched == {t \in TaskIds : tasks[t].kind # "none"}
\* task ids are finite here: a request is taken up only while an id is left for it
Reserved ==
  Cardinality({r \in RequestSlots : train_req[r].pc \in {"save_parameters", "delay"}})
  + (IF opt_req.pc = "delay" THEN 1 ELSE 0)
TaskIdLeft == Cardinality(Dispatched) + Reserved < limits.tasks
FreshTask == CHOOSE t \in TaskIds \ Dispatched : \A u \in TaskIds \ Dispatched : t <= u
WorkerPcs == {"get_or_create", "set_task_id", "mark_running", "mark_training", "load_samples",
              "save_total_epochs", "train", "save_model", "finish_model", "finish_job",
              "failed_get_model", "failed_get_job", "failed_save_job", "failed_save_model",
              "opt_mark_training", "opt_optimize", "opt_save_created",
              "opt_failed_get_model", "opt_failed_save_model"}
Executing(t) == tasks[t].pc \in WorkerPcs
WorkerFree == Cardinality({t \in TaskIds : Executing(t)}) < limits.concurrency

InitOrchestration(l) ==
  /\ limits = l
  /\ models = [m \in ModelIds |-> NewMLModel]
  /\ jobs = <<>>
  /\ age = <<>>
  /\ artifacts = {}
  /\ tasks = [t \in TaskIds |-> NoTask]
  /\ train_req = [r \in RequestSlots |-> IdleRequest]
  /\ opt_req = IdleRequest
  /\ stop = IdleStop
  /\ sweep = IdleSweep

InitWith(l) ==
  /\ InitOrchestration(l)
  /\ dataset \in [ModelIds -> DatasetKinds]
  /\ prediction = IdlePrediction
  /\ study = IdleStudy
  /\ store = IdleStore
  /\ callback = IdleCallback
  /\ classify = IdleClassify
  /\ factory = IdleFactory

Init == InitWith([tasks |-> MaxTasks, concurrency |-> CELERY_CONCURRENCY,
                 requests |-> MaxRequests])

\* ---- writes: Model.save() stores the whole in-memory row ----
SaveModel(m, row) == [models EXCEPT ![m] = row]
SaveJob(j, row) == [jobs EXCEPT ![j] = row]

(***************************************************************************)
(* POST /models/{id}/train                                                 *)
(***************************************************************************)
SetRequest(r, rec) == [train_req EXCEPT ![r] = rec]

\* get_object_or_404 and the two status checks
start_training_check(r, m) ==
  /\ r <= limits.requests
  /\ train_req[r].pc = "idle"
  /\ TaskIdLeft
  /\ LET row == models[m] IN
       train_req' = SetRequest(r,
         IF row.status = "training"
           THEN [IdleRequest EXCEPT !.pc = "return", !.model = m,
                                   !.outcome = "already_training"]
         ELSE IF row.is_trained /\ row.status # "failed"
           THEN [IdleRequest EXCEPT !.pc = "return", !.model = m,
                                   !.outcome = "already_trained"]
         ELSE [IdleRequest EXCEPT !.pc = "save_parameters", !.model = m, !.model_row = row])
  /\ UNCHANGED <<models, jobs, age, dataset, limits, prediction, study, store, callback, classify, factory, artifacts, tasks, opt_req, stop, sweep>>

\* model.parameters.update(...); model.save()
start_training_save_parameters(r) ==
  /\ train_req[r].pc = "save_parameters"
  /\ models' = SaveModel(train_req[r].model, train_req[r].model_row)
  /\ train_req' = SetRequest(r, [train_req[r] EXCEPT !.pc = "delay"])
  /\ UNCHANGED <<jobs, age, dataset, limits, prediction, study, store, callback, classify, factory, artifacts, tasks, opt_req, stop, sweep>>

\* start_model_training.delay(model.id, ...)
start_training_delay(r) ==
  /\ train_req[r].pc = "delay"
  /\ tasks' = [tasks EXCEPT ![FreshTask] = [NoTask EXCEPT !.kind = "train",
                                                          !.model = train_req[r].model,
                                                          !.pc = "queued"]]
  /\ train_req' = SetRequest(r, [train_req[r] EXCEPT !.pc = "create_job", !.task = FreshTask])
  /\ UNCHANGED <<models, jobs, age, dataset, limits, prediction, study, store, callback, classify, factory, artifacts, opt_req, stop, sweep>>

\* variant: TrainingJob.model as a plain ForeignKey, celery_task_id still unique
JobInsertAllowedForeignKey(m, t) ==
  \A j \in JobIds : jobs[j].celery_task_id # t

\* the two unique constraints of TrainingJob: model (OneToOneField), celery_task_id
JobInsertAllowed(m, t) ==
  /\ JobsOf(m) = {}
  /\ \A j \in JobIds : jobs[j].celery_task_id # t

\* TrainingJob.objects.create(...); an IntegrityError lands in the except clause
start_training_create_job(r) ==
  /\ train_req[r].pc = "create_job"
  /\ IF JobInsertAllowed(train_req[r].model, train_req[r].task)
       THEN /\ jobs' = Append(jobs, NewTrainingJob(train_req[r].model, train_req[r].task))
            /\ age' = Append(age, 0)
            /\ train_req' = SetRequest(r, [train_req[r] EXCEPT !.pc = "mark_training"])
       ELSE /\ train_req' = SetRequest(r, [IdleRequest EXCEPT !.pc = "return",
                                                              !.outcome = "training_error"])
            /\ UNCHANGED <<jobs, age>>
  /\ UNCHANGED <<models, dataset, limits, prediction, study, store, callback, classify, factory, artifacts, tasks, opt_req, stop, sweep>>

\* model.status = 'training'; model.save()
start_training_mark_training(r) ==
  /\ train_req[r].pc = "mark_training"
  /\ models' = SaveModel(train_req[r].model,
                         [train_req[r].model_row EXCEPT !.status = "training"])
  /\ train_req' = SetRequest(r, [IdleRequest EXCEPT !.pc = "return", !.outcome = "started"])
  /\ UNCHANGED <<jobs, age, dataset, limits, prediction, study, store, callback, classify, factory, artifacts, tasks, opt_req, stop, sweep>>

\* return ErrorResponse(...) / TrainingJobOut.from_training_job(training_job)
start_training_return(r) ==
  /\ train_req[r].pc = "return"
  /\ train_req' = SetRequest(r, IdleRequest)
  /\ UNCHANGED <<models, jobs, age, dataset, limits, prediction, study, store, callback, classify, factory, artifacts, tasks, opt_req, stop, sweep>>

(***************************************************************************)
(* Celery task start_model_training(model_id, training_config)             *)
(***************************************************************************)
SetTask(t, rec) == [tasks EXCEPT ![t] = rec]

\* the worker takes the message; model = MLModel.objects.get(id=model_id)
start_model_training_get_model(t) ==
  /\ tasks[t].kind = "train"
  /\ tasks[t].pc = "queued"
  /\ WorkerFree
  /\ tasks' = SetTask(t, [tasks[t] EXCEPT !.pc = "get_or_create",
                                          !.model_row = models[tasks[t].model]])
  /\ UNCHANGED <<models, jobs, age, dataset, limits, prediction, study, store, callback, classify, factory, artifacts, train_req, opt_req, stop, sweep>>

\* TrainingJob.objects.get_or_create(model=model, defaults={...})
start_model_training_get_or_create(t) ==
  /\ tasks[t].pc = "get_or_create"
  /\ LET m == tasks[t].model IN
       IF JobsOf(m) # {}
         THEN /\ tasks' = SetTask(t, [tasks[t] EXCEPT !.pc = "set_task_id",
                                                      !.job_id = TheJobOf(m),
                                                      !.training_job = jobs[TheJobOf(m)]])
              /\ UNCHANGED <<jobs, age>>
         ELSE /\ jobs' = Append(jobs, NewTrainingJob(m, t))
              /\ age' = Append(age, 0)
              /\ tasks' = SetTask(t, [tasks[t] EXCEPT !.pc = "mark_running",
                                                      !.job_id = Len(jobs) + 1,
                                                      !.training_job = NewTrainingJob(m, t)])
  /\ UNCHANGED <<models, dataset, limits, prediction, study, store, callback, classify, factory, artifacts, train_req, opt_req, stop, sweep>>

\* if not created: training_job.celery_task_id = self.request.id; training_job.save()
start_model_training_set_task_id(t) ==
  /\ tasks[t].pc = "set_task_id"
  /\ LET row == [tasks[t].training_job EXCEPT !.celery_task_id = t] IN
       /\ jobs' = SaveJob(tasks[t].job_id, row)
       /\ tasks' = SetTask(t, [tasks[t] EXCEPT !.pc = "mark_running", !.training_job = row])
  /\ UNCHANGED <<models, age, dataset, limits, prediction, study, store, callback, classify, factory, artifacts, train_req, opt_req, stop, sweep>>

\* training_job.status = 'running'; training_job.save()
start_model_training_mark_running(t) ==
  /\ tasks[t].pc = "mark_running"
  /\ LET row == [tasks[t].training_job EXCEPT !.status = "running"] IN
       /\ jobs' = SaveJob(tasks[t].job_id, row)
       /\ tasks' = SetTask(t, [tasks[t] EXCEPT !.pc = "mark_training", !.training_job = row])
  /\ UNCHANGED <<models, age, dataset, limits, prediction, study, store, callback, classify, factory, artifacts, train_req, opt_req, stop, sweep>>

\* model.status = 'training'; model.save()
start_model_training_mark_training(t) ==
  /\ tasks[t].pc = "mark_training"
  /\ LET row == [tasks[t].model_row EXCEPT !.status = "training"] IN
       /\ models' = SaveModel(tasks[t].model, row)
       /\ tasks' = SetTask(t, [tasks[t] EXCEPT !.pc = "load_samples", !.model_row = row])
  /\ UNCHANGED <<jobs, age, dataset, limits, prediction, study, store, callback, classify, factory, artifacts, train_req, opt_req, stop, sweep>>

\* variant: no check of the samples before training
start_model_training_load_samples_unchecked(t) ==
  /\ tasks[t].pc = "load_samples"
  /\ tasks' = SetTask(t, [tasks[t] EXCEPT !.pc = "save_total_epochs"])
  /\ UNCHANGED <<models, jobs, age, dataset, limits, prediction, study, store, callback, classify, factory, artifacts, train_req, opt_req, stop, sweep>>

\* samples.count() == 0, or no sample with a label: raise ValueError
start_model_training_load_samples(t) ==
  /\ tasks[t].pc = "load_samples"
  /\ tasks' = SetTask(t, IF dataset[tasks[t].model] = "ok"
                           THEN [tasks[t] EXCEPT !.pc = "save_total_epochs"]
                           ELSE [tasks[t] EXCEPT !.pc = "failed_get_model",
                                                 !.exc = dataset[tasks[t].model]])
  /\ UNCHANGED <<models, jobs, age, dataset, limits, prediction, study, store, callback, classify, factory, artifacts, train_req, opt_req, stop, sweep>>

\* training_job.total_epochs = total_epochs; training_job.save()
start_model_training_save_total_epochs(t) ==
  /\ tasks[t].pc = "save_total_epochs"
  /\ jobs' = SaveJob(tasks[t].job_id, tasks[t].training_job)
  /\ tasks' = SetTask(t, [tasks[t] EXCEPT !.pc = "train"])
  /\ UNCHANGED <<models, age, dataset, limits, prediction, study, store, callback, classify, factory, artifacts, train_req, opt_req, stop, sweep>>

\* create_model(...) and ml_model.train(...): returns, or raises
start_model_training_train(t) ==
  /\ tasks[t].pc = "train"
  /\ \E raises \in BOOLEAN :
       tasks' = SetTask(t, IF raises
                             THEN [tasks[t] EXCEPT !.pc = "failed_get_model", !.exc = "train"]
                             ELSE [tasks[t] EXCEPT !.pc = "save_model"])
  /\ UNCHANGED <<models, jobs, age, dataset, limits, prediction, study, store, callback, classify, factory, artifacts, train_req, opt_req, stop, sweep>>

\* try: ml_model.save_model(path); model.model_path = ...  except: logger.warning
start_model_training_save_model(t) ==
  /\ tasks[t].pc = "save_model"
  /\ \E raises \in BOOLEAN :
       IF raises
         THEN /\ tasks' = SetTask(t, [tasks[t] EXCEPT !.pc = "finish_model", !.exc = "save_model"])
              /\ UNCHANGED artifacts
         ELSE /\ tasks' = SetTask(t, [tasks[t] EXCEPT !.pc = "finish_model",
                                                      !.model_row.model_path = TRUE])
              /\ artifacts' = artifacts \cup {tasks[t].model}
  /\ UNCHANGED <<models, jobs, age, dataset, limits, prediction, study, store, callback, classify, factory, train_req, opt_req, stop, sweep>>

\* metrics; model.status = 'trained'; model.is_trained = True; model.save()
start_model_training_finish_model(t) ==
  /\ tasks[t].pc = "finish_model"
  /\ \E raises \in BOOLEAN :
       IF raises
         THEN /\ tasks' = SetTask(t, [tasks[t] EXCEPT !.pc = "failed_get_model", !.exc = "metrics"])
              /\ UNCHANGED models
         ELSE LET row == [tasks[t].model_row EXCEPT !.status = "trained", !.is_trained = TRUE] IN
              /\ models' = SaveModel(tasks[t].model, row)
              /\ tasks' = SetTask(t, [tasks[t] EXCEPT !.pc = "finish_job", !.model_row = NoModel])
  /\ UNCHANGED <<jobs, age, dataset, limits, prediction, study, store, callback, classify, factory, artifacts, train_req, opt_req, stop, sweep>>

\* training_job.status = 'completed'; completed_at; progress 100; training_job.save()
start_model_training_finish_job(t) ==
  /\ tasks[t].pc = "finish_job"
  /\ jobs' = SaveJob(tasks[t].job_id, [tasks[t].training_job EXCEPT !.status = "completed",
                                                                   !.completed_at = TRUE,
                                                                   !.progress_percentage = 100])
  /\ tasks' = SetTask(t, [NoTask EXCEPT !.kind = "train", !.model = tasks[t].model, !.pc = "done",
                                        !.result = "success"])
  /\ UNCHANGED <<models, age, dataset, limits, prediction, study, store, callback, classify, factory, artifacts, train_req, opt_req, stop, sweep>>

\* except Exception: model = MLModel.objects.get(id=model_id)
start_model_training_failed_get_model(t) ==
  /\ tasks[t].pc = "failed_get_model"
  /\ tasks' = SetTask(t, [tasks[t] EXCEPT !.pc = "failed_get_job",
                                          !.model_row = models[tasks[t].model]])
  /\ UNCHANGED <<models, jobs, age, dataset, limits, prediction, study, store, callback, classify, factory, artifacts, train_req, opt_req, stop, sweep>>

\* training_job = TrainingJob.objects.get(model=model)
start_model_training_failed_get_job(t) ==
  /\ tasks[t].pc = "failed_get_job"
  /\ JobsOf(tasks[t].model) # {}
  /\ LET j == TheJobOf(tasks[t].model) IN
       tasks' = SetTask(t, [tasks[t] EXCEPT !.pc = "failed_save_job", !.job_id = j,
                                            !.training_job = jobs[j]])
  /\ UNCHANGED <<models, jobs, age, dataset, limits, prediction, study, store, callback, classify, factory, artifacts, train_req, opt_req, stop, sweep>>

\* variant: the writes of the except-ObjectDoesNotExist clause, which sets no traceback
start_model_training_failed_save_job_no_traceback(t) ==
  /\ tasks[t].pc = "failed_save_job"
  /\ jobs' = SaveJob(tasks[t].job_id, [tasks[t].training_job EXCEPT !.status = "failed",
                                                                   !.error_message = "training_failed",
                                                                   !.completed_at = TRUE])
  /\ tasks' = SetTask(t, [tasks[t] EXCEPT !.pc = "failed_save_model", !.job_id = 0,
                                          !.training_job = NoJob])
  /\ UNCHANGED <<models, age, dataset, limits, prediction, study, store, callback, classify, factory, artifacts, train_req, opt_req, stop, sweep>>

\* status 'failed', error_message, traceback, completed_at; training_job.save()
start_model_training_failed_save_job(t) ==
  /\ tasks[t].pc = "failed_save_job"
  /\ jobs' = SaveJob(tasks[t].job_id, [tasks[t].training_job EXCEPT !.status = "failed",
                                                                   !.error_message = "training_failed",
                                                                   !.traceback = TRUE,
                                                                   !.completed_at = TRUE])
  /\ tasks' = SetTask(t, [tasks[t] EXCEPT !.pc = "failed_save_model", !.job_id = 0,
                                          !.training_job = NoJob])
  /\ UNCHANGED <<models, age, dataset, limits, prediction, study, store, callback, classify, factory, artifacts, train_req, opt_req, stop, sweep>>

\* model.status = 'failed'; model.save(); return {"status": "error", ...}
start_model_training_failed_save_model(t) ==
  /\ tasks[t].pc = "failed_save_model"
  /\ models' = SaveModel(tasks[t].model, [tasks[t].model_row EXCEPT !.status = "failed"])
  /\ tasks' = SetTask(t, [NoTask EXCEPT !.kind = "train", !.model = tasks[t].model, !.pc = "done",
                                        !.result = "error"])
  /\ UNCHANGED <<jobs, age, dataset, limits, prediction, study, store, callback, classify, factory, artifacts, train_req, opt_req, stop, sweep>>

(***************************************************************************)
(* The worker process behind a task                                        *)
(***************************************************************************)
\* the process dies without raising: hard time_limit, OOM kill, deploy, or the
\* SIGTERM of revoke(terminate=True)
worker_killed(t) ==
  /\ Executing(t)
  /\ tasks' = SetTask(t, [NoTask EXCEPT !.kind = tasks[t].kind, !.model = tasks[t].model,
                                        !.pc = "dead"])
  /\ UNCHANGED <<models, jobs, age, dataset, limits, prediction, study, store, callback, classify, factory, artifacts, train_req, opt_req, stop, sweep>>

\* wall-clock time passing: job j falls behind the next threshold (created_at is in
\* insertion order, so the jobs inserted before j are at least as old)
NextThreshold(a) == CHOOSE h \in TimeoutHours : h > a /\ \A g \in TimeoutHours : g > a => h <= g
tick(j) ==
  /\ \E h \in TimeoutHours : h > age[j]
  /\ \A i \in JobIds : i < j => age[i] >= NextThreshold(age[j])
  /\ age' = [age EXCEPT ![j] = NextThreshold(age[j])]
  /\ UNCHANGED <<models, jobs, dataset, limits, prediction, study, store, callback, classify, factory, artifacts, tasks, train_req, opt_req, stop, sweep>>

(***************************************************************************)
(* POST /models/{id}/stop-training (via = "api") and the stop_training     *)
(* management command (via = "command")                                    *)
(***************************************************************************)
\* model = get_object_or_404(MLModel, id=model_id) / MLModel.objects.get(id=model_id)
stop_training_get_model(via, m) ==
  /\ stop.pc = "idle"
  /\ stop' = [IdleStop EXCEPT !.pc = "get_job", !.via = via, !.model = m,
                              !.model_row = models[m]]
  /\ UNCHANGED <<models, jobs, age, dataset, limits, prediction, study, store, callback, classify, factory, artifacts, tasks, train_req, opt_req, sweep>>

\* variant: TrainingJob.objects.get(model=model) without any test of the status
stop_training_get_job_any_status ==
  /\ stop.pc = "get_job"
  /\ LET found == JobsOf(stop.model) IN
       IF found = {}
         THEN stop' = [IdleStop EXCEPT !.pc = "return", !.outcome = "not_found"]
         ELSE LET j == CHOOSE j \in found : TRUE IN
              stop' = [stop EXCEPT !.pc = IF stop.via = "api" THEN "save_job" ELSE "revoke",
                                   !.job_id = j, !.training_job = jobs[j]]
  /\ UNCHANGED <<models, jobs, age, dataset, limits, prediction, study, store, callback, classify, factory, artifacts, tasks, train_req, opt_req, sweep>>

\* api: TrainingJob.objects.get(model=model, status__in=['pending', 'running'])
\* command: TrainingJob.objects.get(model=model), then the status test
stop_training_get_job ==
  /\ stop.pc = "get_job"
  /\ LET found == {j \in JobsOf(stop.model) : jobs[j].status \in ActiveStatuses} IN
       IF found = {}
         THEN stop' = [IdleStop EXCEPT !.pc = "return", !.outcome = "not_found"]
         ELSE LET j == CHOOSE j \in found : TRUE IN
              stop' = [stop EXCEPT !.pc = IF stop.via = "api" THEN "save_job" ELSE "revoke",
                                   !.job_id = j, !.training_job = jobs[j]]
  /\ UNCHANGED <<models, jobs, age, dataset, limits, prediction, study, store, callback, classify, factory, artifacts, tasks, train_req, opt_req, sweep>>

\* training_job.status = 'cancelled'; completed_at = now; training_job.save()
stop_training_save_job ==
  /\ stop.pc = "save_job"
  /\ jobs' = SaveJob(stop.job_id,
                     [stop.training_job EXCEPT
                        !.status = "cancelled",
                        !.completed_at = TRUE,
                        !.error_message = IF stop.via = "command" THEN "stopped_by_command" ELSE @])
  /\ stop' = [stop EXCEPT !.pc = "save_model"]
  /\ UNCHANGED <<models, age, dataset, limits, prediction, study, store, callback, classify, factory, artifacts, tasks, train_req, opt_req, sweep>>

\* model.status = 'created'; model.save()
stop_training_save_model ==
  /\ stop.pc = "save_model"
  /\ models' = SaveModel(stop.model, [stop.model_row EXCEPT !.status = "created"])
  /\ stop' = IF stop.via = "api" THEN [stop EXCEPT !.pc = "revoke"]
                                 ELSE [IdleStop EXCEPT !.pc = "return", !.outcome = "stopped"]
  /\ UNCHANGED <<jobs, age, dataset, limits, prediction, study, store, callback, classify, factory, artifacts, tasks, train_req, opt_req, sweep>>

\* control.revoke(training_job.celery_task_id, terminate=True): a message still
\* queued is dropped when a worker receives it; a task being executed gets SIGTERM,
\* which worker_killed delivers at any later moment or never
Revoke(t) ==
  IF t \in TaskIds /\ tasks[t].pc = "queued"
    THEN SetTask(t, [NoTask EXCEPT !.kind = tasks[t].kind, !.model = tasks[t].model,
                                        !.pc = "dead"])
    ELSE tasks

stop_training_revoke ==
  /\ stop.pc = "revoke"
  /\ tasks' = Revoke(stop.training_job.celery_task_id)
  /\ stop' = IF stop.via = "api" THEN [IdleStop EXCEPT !.pc = "return", !.outcome = "stopped"]
                                 ELSE [stop EXCEPT !.pc = "save_job"]
  /\ UNCHANGED <<models, jobs, age, dataset, limits, prediction, study, store, callback, classify, factory, artifacts, train_req, opt_req, sweep>>

\* return MessageResponse(...) / JsonResponse(..., status=404)
stop_training_return ==
  /\ stop.pc = "return"
  /\ stop' = IdleStop
  /\ UNCHANGED <<models, jobs, age, dataset, limits, prediction, study, store, callback, classify, factory, artifacts, tasks, train_req, opt_req, sweep>>

(***************************************************************************)
(* cleanup_stuck_training_jobs (periodic task, hours = 3) and the          *)
(* cleanup_stuck_training command (hours = --timeout-hours, default 2)     *)
(***************************************************************************)
\* variant: filter(status='pending', created_at__lt=now - hours)
StuckJobIdsPendingOnly(hours) == {j \in JobIds : jobs[j].status = "pending" /\ age[j] >= hours}

\* filter(status__in=['running', 'pending'], created_at__lt=now - hours)
StuckJobIds(hours) == {j \in JobIds : jobs[j].status \in ActiveStatuses /\ age[j] >= hours}

\* a finite set of job ids in the order of Meta.ordering = ['-created_at']
RECURSIVE NewestFirst(_)
NewestFirst(S) ==
  IF S = {} THEN <<>>
  ELSE LET j == CHOOSE x \in S : \A y \in S : y <= x IN <<j>> \o NewestFirst(S \ {j})

\* if not stuck_jobs.exists(): return
cleanup_stuck_training_jobs_exists(hours) ==
  /\ sweep.pc = "idle"
  /\ sweep' = IF StuckJobIds(hours) = {} THEN IdleSweep
              ELSE [IdleSweep EXCEPT !.pc = "inspect", !.hours = hours]
  /\ UNCHANGED <<models, jobs, age, dataset, limits, prediction, study, store, callback, classify, factory, artifacts, tasks, train_req, opt_req, stop>>

\* variant: a pass that gives up when the query of the active tasks fails
cleanup_stuck_training_jobs_inspect_skip ==
  /\ sweep.pc = "inspect"
  /\ \E available \in BOOLEAN :
       sweep' = IF available
                  THEN [sweep EXCEPT !.pc = "fetch",
                                     !.active_task_ids = {t \in TaskIds : Executing(t)}]
                  ELSE IdleSweep
  /\ UNCHANGED <<models, jobs, age, dataset, limits, prediction, study, store, callback, classify, factory, artifacts, tasks, train_req, opt_req, stop>>

\* inspect.active(): the ids of the tasks workers are executing; on an exception
\* (logged as a warning) or no reply the set stays empty
cleanup_stuck_training_jobs_inspect ==
  /\ sweep.pc = "inspect"
  /\ \E available \in BOOLEAN :
       sweep' = [sweep EXCEPT !.pc = "fetch",
                              !.inspect_failed = ~available,
                              !.active_task_ids = IF available
                                                    THEN {t \in TaskIds : Executing(t)}
                                                    ELSE {}]
  /\ UNCHANGED <<models, jobs, age, dataset, limits, prediction, study, store, callback, classify, factory, artifacts, tasks, train_req, opt_req, stop>>

\* for job in stuck_jobs: the queryset is evaluated, with select_related('model')
cleanup_stuck_training_jobs_fetch ==
  /\ sweep.pc = "fetch"
  /\ LET ids == NewestFirst(StuckJobIds(sweep.hours)) IN
       sweep' = IF ids = <<>> THEN IdleSweep
                ELSE [sweep EXCEPT !.pc = "save_job",
                                   !.stuck_jobs = [i \in 1..Len(ids) |->
                                                     [id |-> ids[i], job |-> jobs[ids[i]],
                                                      model |-> models[jobs[ids[i]].model]]]]
  /\ UNCHANGED <<models, jobs, age, dataset, limits, prediction, study, store, callback, classify, factory, artifacts, tasks, train_req, opt_req, stop>>

SweepAdvance ==
  IF Len(sweep.stuck_jobs) = 1 THEN IdleSweep
  ELSE [sweep EXCEPT !.pc = "save_job", !.stuck_jobs = Tail(sweep.stuck_jobs)]

\* variant: cleanup by age alone, without the test of active_task_ids
cleanup_stuck_training_jobs_save_job_force ==
  /\ sweep.pc = "save_job"
  /\ LET cur == Head(sweep.stuck_jobs) IN
       jobs' = SaveJob(cur.id, [cur.job EXCEPT !.status = "failed",
                                              !.error_message = "stuck_cleaned_up",
                                              !.completed_at = TRUE])
  /\ sweep' = [sweep EXCEPT !.pc = "save_model"]
  /\ UNCHANGED <<models, age, dataset, limits, prediction, study, store, callback, classify, factory, artifacts, tasks, train_req, opt_req, stop>>

\* if job.celery_task_id not in active_task_ids: job.status = 'failed'; ...; job.save()
cleanup_stuck_training_jobs_save_job ==
  /\ sweep.pc = "save_job"
  /\ LET cur == Head(sweep.stuck_jobs) IN
       IF cur.job.celery_task_id \notin sweep.active_task_ids
         THEN /\ jobs' = SaveJob(cur.id, [cur.job EXCEPT !.status = "failed",
                                                        !.error_message = "stuck_cleaned_up",
                                                        !.completed_at = TRUE])
              /\ sweep' = [sweep EXCEPT !.pc = "save_model"]
         ELSE /\ sweep' = SweepAdvance
              /\ UNCHANGED jobs
  /\ UNCHANGED <<models, age, dataset, limits, prediction, study, store, callback, classify, factory, artifacts, tasks, train_req, opt_req, stop>>

\* job.model.status = 'failed'; job.model.save()
cleanup_stuck_training_jobs_save_model ==
  /\ sweep.pc = "save_model"
  /\ LET cur == Head(sweep.stuck_jobs) IN
       models' = SaveModel(cur.job.model, [cur.model EXCEPT !.status = "failed"])
  /\ sweep' = SweepAdvance
  /\ UNCHANGED <<jobs, age, dataset, limits, prediction, study, store, callback, classify, factory, artifacts, tasks, train_req, opt_req, stop>>

(***************************************************************************)
(* POST /models/{id}/optimize and the optimize_hyperparameters task        *)
(***************************************************************************)
\* get_object_or_404 and the status check
optimize_model_hyperparameters_check(m) ==
  /\ opt_req.pc = "idle"
  /\ TaskIdLeft
  /\ opt_req' = IF models[m].status = "training"
                  THEN [IdleRequest EXCEPT !.pc = "return", !.model = m,
                                   !.outcome = "already_training"]
                  ELSE [IdleRequest EXCEPT !.pc = "delay", !.model = m, !.model_row = models[m]]
  /\ UNCHANGED <<models, jobs, age, dataset, limits, prediction, study, store, callback, classify, factory, artifacts, tasks, train_req, stop, sweep>>

\* optimize_hyperparameters.delay(model.id, ...)
optimize_model_hyperparameters_delay ==
  /\ opt_req.pc = "delay"
  /\ tasks' = SetTask(FreshTask, [NoTask EXCEPT !.kind = "optimize", !.model = opt_req.model,
                                                !.pc = "queued"])
  /\ opt_req' = [opt_req EXCEPT !.pc = "mark_training"]
  /\ UNCHANGED <<models, jobs, age, dataset, limits, prediction, study, store, callback, classify, factory, artifacts, train_req, stop, sweep>>

\* model.status = 'training'; model.save()
optimize_model_hyperparameters_mark_training ==
  /\ opt_req.pc = "mark_training"
  /\ models' = SaveModel(opt_req.model, [opt_req.model_row EXCEPT !.status = "training"])
  /\ opt_req' = [IdleRequest EXCEPT !.pc = "return", !.outcome = "started"]
  /\ UNCHANGED <<jobs, age, dataset, limits, prediction, study, store, callback, classify, factory, artifacts, tasks, train_req, stop, sweep>>

\* return ErrorResponse(...) / HyperparameterOptimizationOut(status="started", ...)
optimize_model_hyperparameters_return ==
  /\ opt_req.pc = "return"
  /\ opt_req' = IdleRequest
  /\ UNCHANGED <<models, jobs, age, dataset, limits, prediction, study, store, callback, classify, factory, artifacts, tasks, train_req, stop, sweep>>

\* the worker takes the message; model = MLModel.objects.get(id=model_id)
optimize_hyperparameters_get_model(t) ==
  /\ tasks[t].kind = "optimize"
  /\ tasks[t].pc = "queued"
  /\ WorkerFree
  /\ tasks' = SetTask(t, [tasks[t] EXCEPT !.pc = "opt_mark_training",
                                          !.model_row = models[tasks[t].model]])
  /\ UNCHANGED <<models, jobs, age, dataset, limits, prediction, study, store, callback, classify, factory, artifacts, train_req, opt_req, stop, sweep>>

\* model.status = 'training'; model.save()
optimize_hyperparameters_mark_training(t) ==
  /\ tasks[t].pc = "opt_mark_training"
  /\ LET row == [tasks[t].model_row EXCEPT !.status = "training"] IN
       /\ models' = SaveModel(tasks[t].model, row)
       /\ tasks' = SetTask(t, [tasks[t] EXCEPT !.pc = "opt_optimize", !.model_row = row])
  /\ UNCHANGED <<jobs, age, dataset, limits, prediction, study, store, callback, classify, factory, artifacts, train_req, opt_req, stop, sweep>>

\* the dataset checks and optimizer.optimize(...): returns, or raises
optimize_hyperparameters_optimize(t) ==
  /\ tasks[t].pc = "opt_optimize"
  /\ \E raises \in BOOLEAN :
       tasks' = SetTask(t, IF dataset[tasks[t].model] # "ok"
                             THEN [tasks[t] EXCEPT !.pc = "opt_failed_get_model",
                                                   !.exc = dataset[tasks[t].model]]
                           ELSE IF raises
                             THEN [tasks[t] EXCEPT !.pc = "opt_failed_get_model",
                                                   !.exc = "optimize"]
                           ELSE [tasks[t] EXCEPT !.pc = "opt_save_created"])
  /\ UNCHANGED <<models, jobs, age, dataset, limits, prediction, study, store, callback, classify, factory, artifacts, train_req, opt_req, stop, sweep>>

\* model.parameters = updated_params; model.status = 'created'; model.save()
optimize_hyperparameters_save_created(t) ==
  /\ tasks[t].pc = "opt_save_created"
  /\ models' = SaveModel(tasks[t].model, [tasks[t].model_row EXCEPT !.status = "created"])
  /\ tasks' = SetTask(t, [NoTask EXCEPT !.kind = "optimize", !.model = tasks[t].model, !.pc = "done",
                                        !.result = "success"])
  /\ UNCHANGED <<jobs, age, dataset, limits, prediction, study, store, callback, classify, factory, artifacts, train_req, opt_req, stop, sweep>>

\* except Exception: model = MLModel.objects.get(id=model_id)
optimize_hyperparameters_failed_get_model(t) ==
  /\ tasks[t].pc = "opt_failed_get_model"
  /\ tasks' = SetTask(t, [tasks[t] EXCEPT !.pc = "opt_failed_save_model",
                                          !.model_row = models[tasks[t].model]])
  /\ UNCHANGED <<models, jobs, age, dataset, limits, prediction, study, store, callback, classify, factory, artifacts, train_req, opt_req, stop, sweep>>

\* model.status = 'failed'; model.save(); return {"status": "error", ...}
optimize_hyperparameters_failed_save_model(t) ==
  /\ tasks[t].pc = "opt_failed_save_model"
  /\ models' = SaveModel(tasks[t].model, [tasks[t].model_row EXCEPT !.status = "failed"])
  /\ tasks' = SetTask(t, [NoTask EXCEPT !.kind = "optimize", !.model = tasks[t].model, !.pc = "done",
                                        !.result = "error"])
  /\ UNCHANGED <<jobs, age, dataset, limits, prediction, study, store, callback, classify, factory, artifacts, train_req, opt_req, stop, sweep>>

(***************************************************************************)
(* Specification                                                           *)
(***************************************************************************)
StartTraining ==
  \/ \E r \in RequestSlots, m \in ModelIds : start_training_check(r, m)
  \/ \E r \in RequestSlots : start_training_save_parameters(r)
  \/ \E r \in RequestSlots : start_training_delay(r)
  \/ \E r \in RequestSlots : start_training_create_job(r)
  \/ \E r \in RequestSlots : start_training_mark_training(r)
  \/ \E r \in RequestSlots : start_training_return(r)

TrainingTask ==
  \/ \E t \in TaskIds : start_model_training_get_model(t)
  \/ \E t \in TaskIds : start_model_training_get_or_create(t)
  \/ \E t \in TaskIds : start_model_training_set_task_id(t)
  \/ \E t \in TaskIds : start_model_training_mark_running(t)
  \/ \E t \in TaskIds : start_model_training_mark_training(t)
  \/ \E t \in TaskIds : start_model_training_load_samples(t)
  \/ \E t \in TaskIds : start_model_training_save_total_epochs(t)
  \/ \E t \in TaskIds : start_model_training_train(t)
  \/ \E t \in TaskIds : start_model_training_save_model(t)
  \/ \E t \in TaskIds : start_model_training_finish_model(t)
  \/ \E t \in TaskIds : start_model_training_finish_job(t)
  \/ \E t \in TaskIds : start_model_training_failed_get_model(t)
  \/ \E t \in TaskIds : start_model_training_failed_get_job(t)
  \/ \E t \in TaskIds : start_model_training_failed_save_job(t)
  \/ \E t \in TaskIds : start_model_training_failed_save_model(t)
  \/ \E t \in TaskIds : worker_killed(t)

StopTraining ==
  \/ \E via \in {"api", "command"}, m \in ModelIds : stop_training_get_model(via, m)
  \/ stop_training_get_job
  \/ stop_training_save_job
  \/ stop_training_save_model
  \/ stop_training_revoke
  \/ stop_training_return

Cleanup ==
  \/ \E j \in JobIds : tick(j)
  \/ \E hours \in TimeoutHours : cleanup_stuck_training_jobs_exists(hours)
  \/ cleanup_stuck_training_jobs_inspect
  \/ cleanup_stuck_training_jobs_fetch
  \/ cleanup_stuck_training_jobs_save_job
  \/ cleanup_stuck_training_jobs_save_model

Optimize ==
  \/ \E m \in ModelIds : optimize_model_hyperparameters_check(m)
  \/ optimize_model_hyperparameters_delay
  \/ optimize_model_hyperparameters_mark_training
  \/ optimize_model_hyperparameters_return
  \/ \E t \in TaskIds : optimize_hyperparameters_get_model(t)
  \/ \E t \in TaskIds : optimize_hyperparameters_mark_training(t)
  \/ \E t \in TaskIds : optimize_hyperparameters_optimize(t)
  \/ \E t \in TaskIds : optimize_hyperparameters_save_created(t)
  \/ \E t \in TaskIds : optimize_hyperparameters_failed_get_model(t)
  \/ \E t \in TaskIds : optimize_hyperparameters_failed_save_model(t)

Next == StartTraining \/ TrainingTask \/ StopTraining
Spec == Init /\ [][Next]_vars

NextCleanup == StartTraining \/ TrainingTask \/ Cleanup
SpecCleanup == Init /\ [][NextCleanup]_vars

NextOptimize == StartTraining \/ TrainingTask \/ Optimize
SpecOptimize == Init /\ [][NextOptimize]_vars

\* a worker that has taken a task either goes on or is killed: the hard time_limit
\* of the task kills a hung one
TaskProgress(t) ==
  \/ start_model_training_get_or_create(t)
  \/ start_model_training_set_task_id(t)
  \/ start_model_training_mark_running(t)
  \/ start_model_training_mark_training(t)
  \/ start_model_training_load_samples(t)
  \/ start_model_training_save_total_epochs(t)
  \/ start_model_training_train(t)
  \/ start_model_training_save_model(t)
  \/ start_model_training_finish_model(t)
  \/ start_model_training_finish_job(t)
  \/ start_model_training_failed_get_model(t)
  \/ start_model_training_failed_get_job(t)
  \/ start_model_training_failed_save_job(t)
  \/ start_model_training_failed_save_model(t)
  \/ worker_killed(t)

\* the beat schedule runs cleanup_stuck_training_jobs again and again, each pass
\* runs to its end, and time passes
CleanupFairness ==
  /\ WF_vars(\E j \in JobIds : tick(j))
  /\ WF_vars(\E hours \in TimeoutHours : cleanup_stuck_training_jobs_exists(hours))
  /\ WF_vars(cleanup_stuck_training_jobs_inspect)
  /\ WF_vars(cleanup_stuck_training_jobs_fetch)
  /\ WF_vars(cleanup_stuck_training_jobs_save_job)
  /\ WF_vars(cleanup_stuck_training_jobs_save_model)
  /\ \A t \in TaskIds : WF_vars(TaskProgress(t))

InitFair == InitWith([tasks |-> MaxTasksFair, concurrency |-> CELERY_CONCURRENCY,
                      requests |-> MaxRequests])
SpecCleanupFair == InitFair /\ [][NextCleanup]_vars /\ CleanupFairness

\* every operation that writes a Model's status except stop-training, with the sweep
\* scheduled for ever (Celery beat), every request handler running to its return, and
\* every worker that has taken a task going on or being killed
OptimizeProgress(t) ==
  \/ optimize_hyperparameters_mark_training(t)
  \/ optimize_hyperparameters_optimize(t)
  \/ optimize_hyperparameters_save_created(t)
  \/ optimize_hyperparameters_failed_get_model(t)
  \/ optimize_hyperparameters_failed_save_model(t)
RequestProgress ==
  \/ \E r \in RequestSlots : start_training_save_parameters(r)
  \/ \E r \in RequestSlots : start_training_delay(r)
  \/ \E r \in RequestSlots : start_training_create_job(r)
  \/ \E r \in RequestSlots : start_training_mark_training(r)
  \/ \E r \in RequestSlots : start_training_return(r)
  \/ optimize_model_hyperparameters_delay
  \/ optimize_model_hyperparameters_mark_training
  \/ optimize_model_hyperparameters_return
NextSweeping == StartTraining \/ TrainingTask \/ Cleanup \/ Optimize
SweepingFairness ==
  /\ WF_vars(\E j \in JobIds : tick(j))
  /\ WF_vars(\E hours \in TimeoutHours : cleanup_stuck_training_jobs_exists(hours))
  /\ WF_vars(cleanup_stuck_training_jobs_inspect)
  /\ WF_vars(cleanup_stuck_training_jobs_fetch)
  /\ WF_vars(cleanup_stuck_training_jobs_save_job)
  /\ WF_vars(cleanup_stuck_training_jobs_save_model)
  /\ WF_vars(RequestProgress)
  /\ \A t \in TaskIds : WF_vars(TaskProgress(t) \/ OptimizeProgress(t))
  /\ \A t \in TaskIds :
       WF_vars(start_model_training_get_model(t) \/ optimize_hyperparameters_get_model(t))
SpecSweepingFair == InitFair /\ [][NextSweeping]_vars /\ SweepingFairness

\* two start_training requests in flight at once
InitRace == InitWith([tasks |-> MaxTasks, concurrency |-> CELERY_CONCURRENCY,
                      requests |-> MaxRacingRequests])
NextRace == StartTraining \/ TrainingTask
SpecRace == InitRace /\ [][NextRace]_vars

(***************************************************************************)
(* Prediction: the predict methods of the four classifiers and the         *)
(* keyword fallback of predict_domains.  Scores and thresholds are         *)
(* thousandths; a dict is a function whose domain is its key set.          *)
(***************************************************************************)
Range(seq) == {seq[i] : i \in DOMAIN seq}
EmptyDict == [k \in {} |-> 0]
Restrict(dict, keys) == [k \in keys |-> dict[k]]
\* [x for x in seq if test(x)] over a dict of scores
AtLeast(seq, scores, threshold) ==
  LET Test(l) == scores[l] >= threshold IN SelectSeq(seq, Test)

\* the sequences without repetition over S of at most n elements
RECURSIVE DistinctSeqs(_, _)
DistinctSeqs(S, n) ==
  IF n = 0 THEN {<<>>}
  ELSE {<<>>} \cup UNION {{<<x>> \o q : q \in DistinctSeqs(S \ {x}, n - 1)} : x \in S}

\* keys of domain_keywords, in the order of the literal
domain_keywords ==
  <<"cardiology", "neurology", "oncology", "respiratory", "endocrinology",
    "gastroenterology", "infectious_disease", "radiology", "emergency_medicine", "surgery">>

\* str.lower() and .replace(' ', '_').replace('-', '_') on the label names in use
Lower(domain) == IF domain = "Infectious-Disease" THEN "infectious-disease" ELSE domain
Underscored(name) == IF name = "infectious-disease" THEN "infectious_disease" ELSE name

\* ClassificationResult.title = CharField(max_length=500)
TITLE_MAX_LENGTH == 500

BASE_SCORE == 100
NAME_BONUS == 500
KEYWORD_STEP == 300
KEYWORD_CAP == 700
BEST_FLOOR == 200
SCORE_MAX == 1000
DEFAULT_WEIGHTS == [transformer |-> 7, traditional |-> 3]
WEIGHT_SCALE == 10
GEMMA_HIGH == 800
GEMMA_LOW == 200

Min(a, b) == IF a <= b THEN a ELSE b
Max(a, b) == IF a >= b THEN a ELSE b

\* TransformerClassifier.predict for one text: probs is sigmoid(logits) by label
TransformerClassifier_predict(all_labels, probs, threshold) ==
  [predicted_domains |-> AtLeast(all_labels, probs, threshold),
   confidence_scores |-> Restrict(probs, Range(all_labels)),
   all_scores |-> Restrict(probs, Range(all_labels))]

\* TraditionalMLClassifier.predict for one text: probs is predict_proba by label
TraditionalMLClassifier_predict(all_labels, probs, threshold) ==
  LET confidence_scores == Restrict(probs, Range(all_labels))
  IN [predicted_domains |-> AtLeast(all_labels, probs, threshold),
      confidence_scores |-> confidence_scores,
      all_scores |-> confidence_scores]

\* HybridEnsembleClassifier.predict for one text
HybridEnsembleClassifier_predict(all_labels, trans_probs, trad_probs, weights, threshold) ==
  LET trans_scores == TransformerClassifier_predict(all_labels, trans_probs, 0).all_scores
      trad_scores == TraditionalMLClassifier_predict(all_labels, trad_probs, 0).all_scores
      combined_scores ==
        [l \in Range(all_labels) |->
           (weights.transformer * trans_scores[l] + weights.traditional * trad_scores[l])
             \div WEIGHT_SCALE]
      predicted_labels == AtLeast(all_labels, combined_scores, threshold)
  IN [predicted_domains |-> predicted_labels,
      confidence_scores |-> Restrict(combined_scores, Range(predicted_labels)),
      all_scores |-> combined_scores]

\* GemmaClassifier.predict for one text: the labels are read off the generated
\* response, threshold is not used
GemmaClassifier_predict(all_labels, response_labels, threshold) ==
  LET Named(l) == l \in response_labels
      predicted_labels == SelectSeq(all_labels, Named)
  IN [predicted_domains |-> predicted_labels,
      confidence_scores |-> [l \in Range(predicted_labels) |-> GEMMA_HIGH],
      all_scores |-> [l \in Range(all_labels) |->
                        IF l \in Range(predicted_labels) THEN GEMMA_HIGH ELSE GEMMA_LOW]]

\* _fallback_prediction: the score of one domain
FallbackScore(domain, text, jitter) ==
  LET domain_key == Underscored(Lower(domain))
      by_name == IF Lower(domain) \in text.names THEN NAME_BONUS ELSE 0
      keyword_matches ==
        IF domain_key \in Range(domain_keywords) /\ domain_key \in DOMAIN text.keyword_matches
        THEN text.keyword_matches[domain_key] ELSE 0
      by_keywords ==
        IF keyword_matches > 0 THEN Min(KEYWORD_CAP, keyword_matches * KEYWORD_STEP) ELSE 0
      random == IF domain \in DOMAIN jitter THEN jitter[domain] ELSE 0
  IN Max(0, Min(SCORE_MAX, BASE_SCORE + by_name + by_keywords + random))

\* variant: the first key of least score
BestDomainLeast(available_domains, domain_scores) ==
  LET i == CHOOSE i \in DOMAIN available_domains :
             /\ \A k \in DOMAIN available_domains :
                  domain_scores[available_domains[k]] >= domain_scores[available_domains[i]]
             /\ \A k \in 1..(i - 1) :
                  domain_scores[available_domains[k]] > domain_scores[available_domains[i]]
  IN available_domains[i]

\* max(domain_scores, key=domain_scores.get): the first key of greatest score
BestDomain(available_domains, domain_scores) ==
  LET i == CHOOSE i \in DOMAIN available_domains :
             /\ \A k \in DOMAIN available_domains :
                  domain_scores[available_domains[k]] <= domain_scores[available_domains[i]]
             /\ \A k \in 1..(i - 1) :
                  domain_scores[available_domains[k]] < domain_scores[available_domains[i]]
  IN available_domains[i]

\* _fallback_prediction: threshold, then the best domain if none met it
FallbackSelect(available_domains, domain_scores, threshold) ==
  LET predicted_domains == AtLeast(available_domains, domain_scores, threshold)
  IN IF predicted_domains = <<>> /\ available_domains # <<>>
     THEN LET best_domain == BestDomain(available_domains, domain_scores)
          IN IF domain_scores[best_domain] > BEST_FLOOR
             THEN [predicted_domains |-> <<best_domain>>,
                   confidence_scores |-> Restrict(domain_scores, {best_domain})]
             ELSE [predicted_domains |-> <<>>, confidence_scores |-> EmptyDict]
     ELSE [predicted_domains |-> predicted_domains,
           confidence_scores |-> Restrict(domain_scores, Range(predicted_domains))]

\* available_domains: the dataset's labels, or the keys of the table if it has none
AvailableDomains(dataset_domains) ==
  IF dataset_domains # <<>> THEN dataset_domains ELSE domain_keywords

\* _fallback_prediction up to the log lines
FallbackPredict(dataset_domains, text, jitter, threshold) ==
  LET available_domains == AvailableDomains(dataset_domains)
      domain_scores == [d \in Range(available_domains) |-> FallbackScore(d, text, jitter)]
      chosen == FallbackSelect(available_domains, domain_scores, threshold)
  IN [predicted_domains |-> chosen.predicted_domains,
      confidence_scores |-> chosen.confidence_scores,
      all_scores |-> domain_scores]

\* ---- the inputs of one call ----
MaxLabels == 2
Labels == {"cardiology", "Infectious-Disease", "rare_disease"}
LabelSeqs(n) == DistinctSeqs(Labels, n)
ProbLevels == {0, 500, 1000}
Thresholds == {0, 150, 500, 1000}
KeywordMatchCounts == {0, 1, 3}
Jitters == {-30, 30}
TitleLengths == {TITLE_MAX_LENGTH, TITLE_MAX_LENGTH + 1}
Texts ==
  [names : SUBSET {Lower(l) : l \in Labels},
   keyword_matches : [{"cardiology", "infectious_disease"} -> KeywordMatchCounts]]
NoText == [names |-> {}, keyword_matches |-> EmptyDict]
NoResult == [predicted_domains |-> <<>>, confidence_scores |-> EmptyDict, all_scores |-> EmptyDict]

NewCall ==
  [pc |-> "called", variant |-> "", all_labels |-> <<>>, threshold |-> 0,
   probs |-> EmptyDict, trad_probs |-> EmptyDict, weights |-> DEFAULT_WEIGHTS,
   response_labels |-> {}, text |-> NoText, jitter |-> EmptyDict, title_len |-> 1,
   model_exists |-> TRUE, result |-> NoResult, status |-> "", fallback |-> FALSE]

\* a trained classifier has a non-empty label vocabulary
TransformerCalls(label_seqs) ==
  UNION {{[NewCall EXCEPT !.variant = "transformer", !.all_labels = a, !.probs = p,
                          !.threshold = t] :
            p \in [Range(a) -> ProbLevels], t \in Thresholds} : a \in label_seqs \ {<<>>}}
TraditionalCalls(label_seqs) ==
  {[c EXCEPT !.variant = "traditional"] : c \in TransformerCalls(label_seqs)}
HybridCalls(label_seqs) ==
  UNION {{[c EXCEPT !.variant = "hybrid", !.trad_probs = p] :
            p \in [Range(c.all_labels) -> ProbLevels]} : c \in TransformerCalls(label_seqs)}
GemmaCalls(label_seqs) ==
  UNION {{[NewCall EXCEPT !.variant = "gemma", !.all_labels = a, !.response_labels = s,
                          !.threshold = t] :
            s \in SUBSET Range(a), t \in Thresholds} : a \in label_seqs \ {<<>>}}
\* model.dataset.medical_domains may be empty
FallbackCalls(label_seqs) ==
  UNION {{[NewCall EXCEPT !.variant = "fallback", !.all_labels = a, !.text = x[1],
                          !.jitter = x[2], !.threshold = x[3], !.title_len = x[4]] :
            x \in Texts \X [Range(a) -> Jitters] \X Thresholds \X TitleLengths} :
         a \in label_seqs}

SetResult(r) ==
  prediction' = [prediction EXCEPT !.pc = "returned", !.result = r, !.status = "success"]

call_TransformerClassifier_predict ==
  /\ prediction.pc = "called" /\ prediction.variant = "transformer"
  /\ SetResult(TransformerClassifier_predict(prediction.all_labels, prediction.probs,
                                             prediction.threshold))
  /\ UNCHANGED <<models, jobs, age, dataset, limits, study, store, callback, classify, factory, artifacts, tasks, train_req, opt_req, stop, sweep>>

call_TraditionalMLClassifier_predict ==
  /\ prediction.pc = "called" /\ prediction.variant = "traditional"
  /\ SetResult(TraditionalMLClassifier_predict(prediction.all_labels, prediction.probs,
                                               prediction.threshold))
  /\ UNCHANGED <<models, jobs, age, dataset, limits, study, store, callback, classify, factory, artifacts, tasks, train_req, opt_req, stop, sweep>>

call_HybridEnsembleClassifier_predict ==
  /\ prediction.pc = "called" /\ prediction.variant = "hybrid"
  /\ SetResult(HybridEnsembleClassifier_predict(prediction.all_labels, prediction.probs,
                                                prediction.trad_probs, prediction.weights,
                                                prediction.threshold))
  /\ UNCHANGED <<models, jobs, age, dataset, limits, study, store, callback, classify, factory, artifacts, tasks, train_req, opt_req, stop, sweep>>

call_GemmaClassifier_predict ==
  /\ prediction.pc = "called" /\ prediction.variant = "gemma"
  /\ SetResult(GemmaClassifier_predict(prediction.all_labels, prediction.response_labels,
                                       prediction.threshold))
  /\ UNCHANGED <<models, jobs, age, dataset, limits, study, store, callback, classify, factory, artifacts, tasks, train_req, opt_req, stop, sweep>>

\* _fallback_prediction: scoring and selection
fallback_prediction_score ==
  /\ prediction.pc = "called" /\ prediction.variant = "fallback"
  /\ prediction' =
       [prediction EXCEPT !.pc = "scored",
                          !.result = FallbackPredict(prediction.all_labels, prediction.text,
                                                     prediction.jitter, prediction.threshold)]
  /\ UNCHANGED <<models, jobs, age, dataset, limits, study, store, callback, classify, factory, artifacts, tasks, train_req, opt_req, stop, sweep>>

\* ClassificationResult.objects.create raises when the Model row is gone; a title longer
\* than the column is rejected by PostgreSQL and kept by SQLite
CreateRaises(call, enforced) ==
  \/ ~call.model_exists
  \/ call.title_len > TITLE_MAX_LENGTH /\ enforced

\* _fallback_prediction: ClassificationResult.objects.create, then the result dict,
\* or the dict of the except clause
fallback_prediction_create ==
  /\ prediction.pc = "scored"
  /\ \E enforced \in BOOLEAN :
       prediction' =
         IF CreateRaises(prediction, enforced)
         THEN [prediction EXCEPT !.pc = "returned", !.status = "error", !.result = NoResult]
         ELSE [prediction EXCEPT !.pc = "returned", !.status = "success", !.fallback = TRUE]
  /\ UNCHANGED <<models, jobs, age, dataset, limits, study, store, callback, classify, factory, artifacts, tasks, train_req, opt_req, stop, sweep>>

\* DELETE /models/{id} while the prediction holds the Model it has read
delete_model ==
  /\ prediction.pc \in {"called", "scored"} /\ prediction.variant = "fallback"
  /\ prediction.model_exists
  /\ prediction' = [prediction EXCEPT !.model_exists = FALSE]
  /\ UNCHANGED <<models, jobs, age, dataset, limits, study, store, callback, classify, factory, artifacts, tasks, train_req, opt_req, stop, sweep>>

InitPredict ==
  /\ InitOrchestration([tasks |-> MaxTasks, concurrency |-> CELERY_CONCURRENCY,
                        requests |-> MaxRequests])
  /\ dataset = [m \in ModelIds |-> "ok"]
  /\ \E label_seqs \in {LabelSeqs(MaxLabels)} :
       prediction \in TransformerCalls(label_seqs) \cup TraditionalCalls(label_seqs)
                         \cup HybridCalls(label_seqs) \cup GemmaCalls(label_seqs)
                         \cup FallbackCalls(label_seqs)
  /\ study = IdleStudy
  /\ store = IdleStore
  /\ callback = IdleCallback
  /\ classify = IdleClassify
  /\ factory = IdleFactory

NextPredict ==
  \/ call_TransformerClassifier_predict
  \/ call_TraditionalMLClassifier_predict
  \/ call_HybridEnsembleClassifier_predict
  \/ call_GemmaClassifier_predict
  \/ fallback_prediction_score
  \/ fallback_prediction_create
  \/ delete_model

SpecPredict == InitPredict /\ [][NextPredict]_vars

(***************************************************************************)
(* Hyperparameter search: HyperparameterOptimizer.optimize over an optuna  *)
(* study.  A named study lives in sqlite:///optuna_{study_name}.db and     *)
(* outlasts the call; metric values are hundredths.                        *)
(***************************************************************************)
MaxSearches == 2
MaxTrials == 2
MetricLevels == {40, 80}
\* what create_model / model.train do inside an objective's try block
TrialOutcomes ==
  {[raises |-> TRUE, metric |-> 0]} \cup {[raises |-> FALSE, metric |-> v] : v \in MetricLevels}

\* MLModel.MODEL_TYPES and the names start_model_training and create_model tell apart
ModelTypes ==
  {"bert", "biobert", "clinicalbert", "scibert", "pubmedbert", "gemma2-2b", "traditional",
   "hybrid", "custom"}
\* the lists optimize() selects the objective by
TransformerObjectiveTypes == {"bert", "biobert", "clinicalbert", "scibert", "gemma2-2b"}
\* create_model passes bert_model on to TransformerClassifier.__init__, which has no
\* such parameter: TypeError
CreateModelRaises(model_type) == model_type \in {"bert", "biobert", "clinicalbert", "scibert"}

\* how a call of an objective ends
Return(value) == [raised |-> FALSE, value |-> value]
Raise == [raised |-> TRUE, value |-> -1]

\* variant: _objective_transformer without its try / except
objective_transformer_unguarded(model_type, outcome) ==
  IF CreateModelRaises(model_type) \/ outcome.raises THEN Raise ELSE Return(outcome.metric)

\* _objective_transformer, _objective_traditional, _objective_hybrid
objective_transformer(model_type, outcome) ==
  IF CreateModelRaises(model_type) \/ outcome.raises THEN Return(0) ELSE Return(outcome.metric)
objective_traditional(outcome) == IF outcome.raises THEN Return(0) ELSE Return(outcome.metric)
objective_hybrid(outcome) == IF outcome.raises THEN Return(0) ELSE Return(outcome.metric)

Supported(model_type) ==
  model_type \in TransformerObjectiveTypes \cup {"traditional", "hybrid"}
objective_fn(model_type, outcome) ==
  CASE model_type \in TransformerObjectiveTypes -> objective_transformer(model_type, outcome)
    [] model_type = "traditional" -> objective_traditional(outcome)
    [] model_type = "hybrid" -> objective_hybrid(outcome)

\* whether the try block of the objective raised
TrialFailed(model_type, outcome) ==
  outcome.raises \/ (model_type \in TransformerObjectiveTypes /\ CreateModelRaises(model_type))

\* variant: a new study at every call
create_study_new(study_name, stored) == <<>>

\* optuna.create_study(..., load_if_exists=True): the trials of the study handed back
create_study(study_name, stored) == IF study_name # "" THEN stored ELSE <<>>

\* study.best_value with direction='maximize': over the trials that completed
RECURSIVE best_value(_)
best_value(trials) ==
  IF trials = <<>> THEN -1
  ELSE LET rest == best_value(Tail(trials))
           head == IF Head(trials).state = "COMPLETE" THEN Head(trials).value ELSE -1
       IN Max(head, rest)

\* variant: the number of trials asked for is reported
optimize_result_requested(trials, n_trials) ==
  [best_value |-> best_value(trials), n_trials |-> n_trials]

\* the dict optimize() returns
optimize_result(trials, n_trials) ==
  [best_value |-> best_value(trials), n_trials |-> Len(trials)]

NoSearchResult == [best_value |-> -1, n_trials |-> -1]
NewStudy(model_type, study_name) ==
  [pc |-> "idle", model_type |-> model_type, study_name |-> study_name, trials |-> <<>>,
   failed |-> {}, n_trials |-> 0, timeout |-> FALSE, loaded |-> 0, ran |-> 0, calls |-> 0,
   result |-> NoSearchResult]

\* optimize(): create or load the study, select the objective
optimize_create_study(n, timeout) ==
  /\ study.pc \in {"idle", "returned", "raised"}
  /\ study.calls < MaxSearches
  /\ LET loaded == create_study(study.study_name, study.trials)
     IN study' = [study EXCEPT !.pc = IF Supported(study.model_type) THEN "optimizing"
                                      ELSE "raised",
                               !.trials = loaded,
                               !.failed = IF loaded = <<>> THEN {} ELSE @,
                               !.loaded = Len(loaded),
                               !.n_trials = n, !.timeout = timeout, !.ran = 0,
                               !.calls = @ + 1]
  /\ UNCHANGED <<models, jobs, age, dataset, limits, prediction, store, callback, classify, factory, artifacts, tasks, train_req, opt_req, stop, sweep>>

\* study.optimize: one trial; an exception leaving the objective marks the trial FAIL
\* and ends the search
study_optimize_trial(outcome) ==
  /\ study.pc = "optimizing"
  /\ study.ran < study.n_trials
  /\ LET ended == objective_fn(study.model_type, outcome)
         value == ended.value
         number == Len(study.trials) + 1
     IN study' =
          IF ended.raised
          THEN [study EXCEPT !.pc = "raised",
                             !.trials = Append(@, [state |-> "FAIL", value |-> -1]),
                             !.ran = @ + 1]
          ELSE [study EXCEPT !.trials = Append(@, [state |-> "COMPLETE", value |-> value]),
                             !.failed = IF TrialFailed(study.model_type, outcome)
                                        THEN @ \cup {number} ELSE @,
                             !.ran = @ + 1]
  /\ UNCHANGED <<models, jobs, age, dataset, limits, prediction, store, callback, classify, factory, artifacts, tasks, train_req, opt_req, stop, sweep>>

\* study.optimize ends after n_trials trials, or between two trials once the timeout
\* has passed; optimize() returns its dict
optimize_return(timed_out) ==
  /\ study.pc = "optimizing"
  /\ \/ study.ran = study.n_trials /\ ~timed_out
     \/ study.ran >= 1 /\ study.ran < study.n_trials /\ study.timeout /\ timed_out
  /\ study' = [study EXCEPT !.pc = "returned",
                            !.result = optimize_result(study.trials, study.n_trials)]
  /\ UNCHANGED <<models, jobs, age, dataset, limits, prediction, store, callback, classify, factory, artifacts, tasks, train_req, opt_req, stop, sweep>>

InitSearch ==
  /\ InitOrchestration([tasks |-> MaxTasks, concurrency |-> CELERY_CONCURRENCY,
                        requests |-> MaxRequests])
  /\ dataset = [m \in ModelIds |-> "ok"]
  /\ prediction = IdlePrediction
  /\ study \in {NewStudy(t, s) : t \in ModelTypes, s \in {"", "model_1_optimization"}}
  /\ store = IdleStore
  /\ callback = IdleCallback
  /\ classify = IdleClassify
  /\ factory = IdleFactory

NextSearch ==
  \/ \E n \in 1..MaxTrials, timeout \in BOOLEAN : optimize_create_study(n, timeout)
  \/ \E outcome \in TrialOutcomes : study_optimize_trial(outcome)
  \/ \E timed_out \in BOOLEAN : optimize_return(timed_out)

SpecSearch == InitSearch /\ [][NextSearch]_vars

(***************************************************************************)
(* Artifacts: save_model at the end of start_model_training and the load   *)
(* of predict_domains.  A path is the sequence of the pieces the code cuts *)
(* and joins it by; the files are a function from the paths that exist.    *)
(***************************************************************************)
\* os.path.join(model_dir, f'model_{model.id}.pkl') under MEDIA_ROOT
ModelFilePath == <<"trained_models/model_1", ".pkl">>

\* str.replace(old, new), old one piece, new a sequence of pieces
RECURSIVE StrReplace(_, _, _)
StrReplace(path, old, new) ==
  IF path = <<>> THEN <<>>
  ELSE (IF Head(path) = old THEN new ELSE <<Head(path)>>) \o StrReplace(Tail(path), old, new)

Exists(files, path) == path \in DOMAIN files
IsDir(files, path) == Exists(files, path) /\ files[path].kind = "dir"
Write(files, path, content) ==
  [p \in DOMAIN files \cup {path} |-> IF p = path THEN content ELSE files[p]]
NoFiles == [p \in {} |-> 0]

NoWeights == [transformer |-> 0, traditional |-> 0]
File(kind, all_labels, weights, paths, entries) ==
  [kind |-> kind, all_labels |-> all_labels, weights |-> weights, paths |-> paths,
   entries |-> entries]
\* what save_pretrained of the model and of the tokenizer leave in the directory
PretrainedEntries == {"config.json", "vocab.txt", "model.safetensors", "tokenizer_config.json"}
LoadFailed == [ok |-> FALSE, all_labels |-> <<>>, weights |-> NoWeights, parts |-> {}]
Loaded(all_labels, weights, parts) ==
  [ok |-> TRUE, all_labels |-> all_labels, weights |-> weights, parts |-> parts]

BertTypes == {"bert", "biobert", "clinicalbert", "scibert", "pubmedbert"}

TransformerClassifier_save_model(files, model_path, all_labels) ==
  LET model_dir == StrReplace(model_path, ".pkl", <<"_model">>)
      with_dir == Write(files, model_dir, File("dir", <<>>, NoWeights, <<>>, PretrainedEntries))
  IN Write(with_dir, StrReplace(model_path, ".pkl", <<"_metadata.json">>),
           File("json", all_labels, NoWeights, <<>>, {}))

TransformerClassifier_load_model(files, model_path) ==
  \* model_path.endswith('_model'), model_path[:-6], f"{model_path}_model"
  LET ends == model_path # <<>> /\ model_path[Len(model_path)] = "_model"
      base_path == SubSeq(model_path, 1, Len(model_path) - 1)
      model_dir == IF ends THEN model_path ELSE Append(model_path, "_model")
      metadata_path == IF ends THEN Append(base_path, "_metadata.json")
                       ELSE Append(model_path, "_metadata.json")
  IN IF Exists(files, metadata_path) /\ files[metadata_path].kind = "json"
        /\ IsDir(files, model_dir)
     THEN Loaded(files[metadata_path].all_labels, NoWeights, {"transformer"})
     ELSE LoadFailed

GemmaClassifier_save_model(files, model_path, all_labels) ==
  Write(files, StrReplace(model_path, ".pkl", <<"_metadata.json">>),
        File("json", all_labels, NoWeights, <<>>, {}))

\* the weights are fetched again by model name
GemmaClassifier_load_model(files, model_path) ==
  LET metadata_path == StrReplace(model_path, ".pkl", <<"_metadata.json">>)
  IN IF Exists(files, metadata_path) /\ files[metadata_path].kind = "json"
     THEN Loaded(files[metadata_path].all_labels, NoWeights, {"gemma"})
     ELSE LoadFailed

TraditionalMLClassifier_save_model(files, model_path, all_labels) ==
  Write(files, model_path, File("pickle", all_labels, NoWeights, <<>>, {}))

TraditionalMLClassifier_load_model(files, model_path) ==
  IF Exists(files, model_path) /\ files[model_path].kind = "pickle"
  THEN Loaded(files[model_path].all_labels, NoWeights, {"traditional"})
  ELSE LoadFailed

HybridEnsembleClassifier_save_model(files, model_path, all_labels, weights) ==
  LET transformer_path == StrReplace(model_path, ".pkl", <<"_transformer", ".pkl">>)
      traditional_path == StrReplace(model_path, ".pkl", <<"_traditional", ".pkl">>)
      one == TransformerClassifier_save_model(files, transformer_path, all_labels)
      two == TraditionalMLClassifier_save_model(one, traditional_path, all_labels)
  IN Write(two, model_path,
           File("pickle", <<>>, weights, <<transformer_path, traditional_path>>, {}))

HybridEnsembleClassifier_load_model(files, model_path) ==
  IF Exists(files, model_path) /\ files[model_path].kind = "pickle"
  THEN LET ensemble_data == files[model_path]
           transformer == TransformerClassifier_load_model(files, ensemble_data.paths[1])
           traditional == TraditionalMLClassifier_load_model(files, ensemble_data.paths[2])
       IN IF transformer.ok /\ traditional.ok
          THEN Loaded(transformer.all_labels, ensemble_data.weights,
                      {"transformer", "traditional"})
          ELSE LoadFailed
  ELSE LoadFailed

\* ml_model.save_model(model_path) by the class create_model gave
save_model(model_type, files, model_path, all_labels, weights) ==
  CASE model_type \in BertTypes -> TransformerClassifier_save_model(files, model_path, all_labels)
    [] model_type = "gemma2-2b" -> GemmaClassifier_save_model(files, model_path, all_labels)
    [] model_type = "traditional" ->
         TraditionalMLClassifier_save_model(files, model_path, all_labels)
    [] model_type = "hybrid" ->
         HybridEnsembleClassifier_save_model(files, model_path, all_labels, weights)

load_model(model_type, files, model_path) ==
  CASE model_type \in BertTypes -> TransformerClassifier_load_model(files, model_path)
    [] model_type = "gemma2-2b" -> GemmaClassifier_load_model(files, model_path)
    [] model_type = "traditional" -> TraditionalMLClassifier_load_model(files, model_path)
    [] model_type = "hybrid" -> HybridEnsembleClassifier_load_model(files, model_path)

\* model.model_path as start_model_training stores it after save_model
StoredModelPath(model_type) ==
  IF model_type \in BertTypes THEN <<"trained_models/model_1", "_model">>
  ELSE <<"trained_models/model_1", ".pkl">>

WeightChoices == {DEFAULT_WEIGHTS, [transformer |-> 5, traditional |-> 5]}
TrainedStore(model_type, all_labels, weights) ==
  [pc |-> "trained", model_type |-> model_type, all_labels |-> all_labels,
   weights |-> weights, files |-> NoFiles, model_path |-> <<>>, saved |-> FALSE,
   loaded |-> LoadFailed]

\* start_model_training: save the trained model, keep its path; a failure is logged
save_trained_model(raises) ==
  /\ store.pc = "trained"
  /\ store' =
       IF raises THEN [store EXCEPT !.pc = "stored"]
       ELSE [store EXCEPT !.pc = "stored", !.saved = TRUE,
                          !.files = save_model(store.model_type, store.files, ModelFilePath,
                                               store.all_labels, store.weights),
                          !.model_path = StoredModelPath(store.model_type)]
  /\ UNCHANGED <<models, jobs, age, dataset, limits, prediction, study, callback, classify, factory, artifacts, tasks, train_req, opt_req, stop, sweep>>

\* predict_domains: the checks of the stored path, then create_model and load_model;
\* any failure sends the prediction to the fallback
predict_domains_load ==
  /\ store.pc = "stored"
  /\ LET path == store.model_path
         usable ==
           /\ path # <<>>
           /\ Exists(store.files, path)
           /\ store.model_type \in BertTypes =>
                /\ IsDir(store.files, path)
                /\ {"config.json", "vocab.txt"} \subseteq store.files[path].entries
                /\ {"model.safetensors", "pytorch_model.bin"} \cap store.files[path].entries # {}
         result == IF usable THEN load_model(store.model_type, store.files, path)
                   ELSE LoadFailed
     IN store' = [store EXCEPT !.pc = IF result.ok THEN "loaded" ELSE "fallback",
                               !.loaded = result]
  /\ UNCHANGED <<models, jobs, age, dataset, limits, prediction, study, callback, classify, factory, artifacts, tasks, train_req, opt_req, stop, sweep>>

InitArtifact ==
  /\ InitOrchestration([tasks |-> MaxTasks, concurrency |-> CELERY_CONCURRENCY,
                        requests |-> MaxRequests])
  /\ dataset = [m \in ModelIds |-> "ok"]
  /\ prediction = IdlePrediction
  /\ study = IdleStudy
  /\ store \in {TrainedStore(x[1], x[2], x[3]) :
                  x \in (BertTypes \cup {"gemma2-2b", "traditional", "hybrid"})
                          \X (LabelSeqs(MaxLabels) \ {<<>>}) \X WeightChoices}
  /\ callback = IdleCallback
  /\ classify = IdleClassify
  /\ factory = IdleFactory

NextArtifact ==
  \/ \E raises \in BOOLEAN : save_trained_model(raises)
  \/ predict_domains_load

SpecArtifact == InitArtifact /\ [][NextArtifact]_vars

(***************************************************************************)
(* TrainingProgressCallback.on_epoch_end(epoch, logs), as the class is     *)
(* defined in start_model_training.  Progress is a whole percentage.       *)
(***************************************************************************)
MaxEpochs == 3
Channels == {"training_1", "global_training"}

\* progress = ((epoch + 1) / self.training_job.total_epochs) * 100
Progress(epoch, total_epochs) == ((epoch + 1) * 100) \div total_epochs

NewCallback(total_epochs, epoch, channel_layer, send_raises) ==
  [pc |-> "save", epoch |-> epoch, channel_layer |-> channel_layer,
   send_raises |-> send_raises,
   training_job |-> [total_epochs |-> total_epochs, current_epoch |-> epoch,
                     progress_percentage |-> Progress(epoch - 1, total_epochs)],
   stored |-> [total_epochs |-> total_epochs, current_epoch |-> epoch,
               progress_percentage |-> Progress(epoch - 1, total_epochs)],
   task_state |-> "STARTED", sent |-> <<>>]

\* current_epoch = epoch + 1; progress_percentage = progress; self.training_job.save()
on_epoch_end_save ==
  /\ callback.pc = "save"
  /\ LET row == [callback.training_job EXCEPT
                   !.current_epoch = callback.epoch + 1,
                   !.progress_percentage = Progress(callback.epoch,
                                                   callback.training_job.total_epochs)] IN
       callback' = [callback EXCEPT !.pc = "update_state", !.training_job = row,
                                    !.stored = row]
  /\ UNCHANGED <<models, jobs, age, dataset, limits, prediction, study, store, classify, factory, artifacts, tasks, train_req, opt_req, stop, sweep>>

\* self.task.update_state(state='PROGRESS', meta=...); if self.channel_layer:
on_epoch_end_update_state ==
  /\ callback.pc = "update_state"
  /\ callback' = [callback EXCEPT !.pc = IF callback.channel_layer THEN "send_model_room"
                                                                   ELSE "returned",
                                  !.task_state = "PROGRESS"]
  /\ UNCHANGED <<models, jobs, age, dataset, limits, prediction, study, store, classify, factory, artifacts, tasks, train_req, opt_req, stop, sweep>>

\* async_to_sync(self.channel_layer.group_send)(group, {...progress_data}): the
\* message is sent, or the call raises and the exception leaves on_epoch_end
group_send(group, next_pc) ==
  IF group \in callback.send_raises
    THEN [callback EXCEPT !.pc = "raised"]
    ELSE [callback EXCEPT !.pc = next_pc,
                          !.sent = Append(@, [group |-> group,
                                              current_epoch |-> callback.epoch + 1,
                                              progress_percentage |->
                                                callback.training_job.progress_percentage])]

\* send to the room of the model: f'training_{model.id}'
on_epoch_end_send_model_room ==
  /\ callback.pc = "send_model_room"
  /\ callback' = group_send("training_1", "send_global_room")
  /\ UNCHANGED <<models, jobs, age, dataset, limits, prediction, study, store, classify, factory, artifacts, tasks, train_req, opt_req, stop, sweep>>

\* send to the global room: 'global_training'
on_epoch_end_send_global_room ==
  /\ callback.pc = "send_global_room"
  /\ callback' = group_send("global_training", "returned")
  /\ UNCHANGED <<models, jobs, age, dataset, limits, prediction, study, store, classify, factory, artifacts, tasks, train_req, opt_req, stop, sweep>>

InitCallback ==
  /\ InitOrchestration([tasks |-> MaxTasks, concurrency |-> CELERY_CONCURRENCY,
                        requests |-> MaxRequests])
  /\ dataset = [m \in ModelIds |-> "ok"]
  /\ prediction = IdlePrediction
  /\ study = IdleStudy
  /\ store = IdleStore
  /\ callback \in {NewCallback(x[1], e, x[2], x[3]) :
                     x \in (1..MaxEpochs) \X BOOLEAN \X SUBSET Channels,
                     e \in 0..(MaxEpochs - 1)}
  /\ callback.epoch < callback.training_job.total_epochs
  /\ classify = IdleClassify
  /\ factory = IdleFactory

NextCallback ==
  \/ on_epoch_end_save
  \/ on_epoch_end_update_state
  \/ on_epoch_end_send_model_room
  \/ on_epoch_end_send_global_room

SpecCallback == InitCallback /\ [][NextCallback]_vars

(***************************************************************************)
(* create_model(model_type, **kwargs) and the constructors it calls.       *)
(* kwargs is a function from the keyword names given to their values.      *)
(***************************************************************************)
MEDICAL_BERT_MODELS == {"biobert", "clinicalbert", "scibert", "pubmedbert"}
GEMMA_MODELS == {"gemma2-2b"}
ALGORITHMS == {"svm", "random_forest", "logistic_regression"}

\* how a call of create_model ends
TypeError == [raised |-> TRUE, error |-> "TypeError", classifier |-> "", model_type |-> ""]
ValueError == [raised |-> TRUE, error |-> "ValueError", classifier |-> "", model_type |-> ""]
Classifier(class, model_type) ==
  [raised |-> FALSE, error |-> "", classifier |-> class, model_type |-> model_type]

\* kwargs.get(key, default)
Get(kwargs, key, default) == IF key \in DOMAIN kwargs THEN kwargs[key] ELSE default
\* the kwargs left after kwargs.pop(key, ...)
Pop(kwargs, key) == [k \in DOMAIN kwargs \ {key} |-> kwargs[k]]

\* __init__(self, model_type='biobert', num_labels=None, max_length=512, device=None)
TransformerClassifier_init(model_type, kwargs) ==
  IF ~(DOMAIN kwargs \subseteq {"num_labels", "max_length", "device"}) THEN TypeError
  ELSE IF model_type \notin MEDICAL_BERT_MODELS THEN ValueError
  ELSE Classifier("TransformerClassifier", model_type)

\* __init__(self, model_type='gemma2-2b', num_labels=None, max_length=512, device=None)
GemmaClassifier_init(model_type, kwargs) ==
  IF ~(DOMAIN kwargs \subseteq {"num_labels", "max_length", "device"}) THEN TypeError
  ELSE IF model_type \notin GEMMA_MODELS THEN ValueError
  ELSE Classifier("GemmaClassifier", model_type)

\* __init__(self, algorithm='svm', max_features=10000, **kwargs): extra keys ignored
TraditionalMLClassifier_init(algorithm, kwargs) ==
  IF algorithm \notin ALGORITHMS THEN ValueError
  ELSE Classifier("TraditionalMLClassifier", algorithm)

\* __init__(self, transformer_type='biobert', traditional_algorithm='svm',
\*          ensemble_method='voting'): builds its two members
HybridEnsembleClassifier_init(kwargs) ==
  IF ~(DOMAIN kwargs \subseteq {"transformer_type", "traditional_algorithm", "ensemble_method"})
    THEN TypeError
  ELSE IF TransformerClassifier_init(Get(kwargs, "transformer_type", "biobert"), <<>>).raised
    THEN TransformerClassifier_init(Get(kwargs, "transformer_type", "biobert"), <<>>)
  ELSE IF TraditionalMLClassifier_init(Get(kwargs, "traditional_algorithm", "svm"), <<>>).raised
    THEN TraditionalMLClassifier_init(Get(kwargs, "traditional_algorithm", "svm"), <<>>)
  ELSE Classifier("HybridEnsembleClassifier", "hybrid")

create_model(model_type, kwargs) ==
  IF model_type \in {"bert", "biobert", "clinicalbert", "scibert", "pubmedbert"}
    THEN TransformerClassifier_init(IF model_type = "bert"
                                      THEN Get(kwargs, "bert_model", "biobert")
                                      ELSE model_type, kwargs)
  ELSE IF model_type \in {"gemma2-2b"} THEN GemmaClassifier_init(model_type, kwargs)
  ELSE IF model_type = "traditional"
    THEN TraditionalMLClassifier_init(Get(kwargs, "algorithm", "svm"), Pop(kwargs, "algorithm"))
  ELSE IF model_type = "hybrid" THEN HybridEnsembleClassifier_init(kwargs)
  ELSE ValueError

\* the keyword arguments tried: every subset of these keys, each key with these values
KwargValues ==
  [bert_model |-> {"biobert"}, max_length |-> {"512"}, algorithm |-> {"svm", "random_forest"},
   transformer_type |-> {"scibert"}, learning_rate |-> {"0.001"}]
Kwargs(keys) ==
  UNION {{kw \in [ks -> UNION {KwargValues[k] : k \in ks}] :
            \A k \in ks : kw[k] \in KwargValues[k]} : ks \in SUBSET keys}

NewFactoryCall(model_type, kwargs) ==
  [pc |-> "call", model_type |-> model_type, kwargs |-> kwargs, result |-> TypeError]

\* ml_model = create_model(model_type=..., **kwargs)
call_create_model ==
  /\ factory.pc = "call"
  /\ factory' = [factory EXCEPT !.pc = "returned",
                                !.result = create_model(factory.model_type, factory.kwargs)]
  /\ UNCHANGED <<models, jobs, age, dataset, limits, prediction, study, store, callback, classify, artifacts, tasks, train_req, opt_req, stop, sweep>>

InitFactory ==
  /\ InitOrchestration([tasks |-> MaxTasks, concurrency |-> CELERY_CONCURRENCY,
                        requests |-> MaxRequests])
  /\ dataset = [m \in ModelIds |-> "ok"]
  /\ prediction = IdlePrediction
  /\ study = IdleStudy
  /\ store = IdleStore
  /\ callback = IdleCallback
  /\ classify = IdleClassify
  /\ \E kwargs_tried \in {Kwargs(DOMAIN KwargValues)} :
       factory \in {NewFactoryCall(t, kw) : t \in ModelTypes, kw \in kwargs_tried}

NextFactory == call_create_model

SpecFactory == InitFactory /\ [][NextFactory]_vars

(***************************************************************************)
(* POST /predict and /predict-batch: classify_single and classify_batch    *)
(* around predict_domains, for a Model found with is_trained = True         *)
(***************************************************************************)
Endpoints == {"classify_single", "classify_batch"}
BertDirs == {"complete", "no_required_files", "no_weights_file", "not_a_directory"}
NoPrediction == [status |-> "", model_used |-> "", fallback |-> FALSE]
NoResponse == [schema |-> "", model_used |-> "", empty |-> FALSE]

NewClassify(endpoint, model_path, exists, bert, bert_dir, use_raises, fallback_raises) ==
  [pc |-> "check_path", endpoint |-> endpoint, model_path |-> model_path, exists |-> exists,
   bert |-> bert, bert_dir |-> bert_dir, use_raises |-> use_raises,
   fallback_raises |-> fallback_raises, path |-> "", prediction_result |-> NoPrediction,
   response |-> NoResponse]

\* if not model.model_path / not os.path.exists(...) / the BERT directory checks:
\* return _fallback_prediction(...)
predict_domains_check_path ==
  /\ classify.pc = "check_path"
  /\ classify' = [classify EXCEPT !.pc =
       IF ~classify.model_path THEN "fallback"
       ELSE IF ~classify.exists THEN "fallback"
       ELSE IF classify.bert /\ classify.bert_dir # "complete" THEN "fallback"
       ELSE "use_model"]
  /\ UNCHANGED <<models, jobs, age, dataset, limits, prediction, study, store, callback, factory, artifacts, tasks, train_req, opt_req, stop, sweep>>

\* create_model(...); ml_model.load_model(...); ml_model.predict(...); on an exception
\* return _fallback_prediction(...); else the result dict with model_used = model.name
predict_domains_use_model ==
  /\ classify.pc = "use_model"
  /\ classify' = IF classify.use_raises
                   THEN [classify EXCEPT !.pc = "fallback"]
                   ELSE [classify EXCEPT !.pc = "respond", !.path = "classifier",
                                         !.prediction_result =
                                           [status |-> "success", model_used |-> "name",
                                            fallback |-> FALSE]]
  /\ UNCHANGED <<models, jobs, age, dataset, limits, prediction, study, store, callback, factory, artifacts, tasks, train_req, opt_req, stop, sweep>>

\* _fallback_prediction: "model_used": f"{model.name} (fallback)", "fallback": True;
\* on an exception {"status": "error", ...}
predict_domains_fallback ==
  /\ classify.pc = "fallback"
  /\ classify' = [classify EXCEPT
       !.pc = "respond", !.path = "fallback",
       !.prediction_result =
          IF classify.fallback_raises
            THEN [status |-> "error", model_used |-> "", fallback |-> FALSE]
            ELSE [status |-> "success", model_used |-> "name (fallback)", fallback |-> TRUE]]
  /\ UNCHANGED <<models, jobs, age, dataset, limits, prediction, study, store, callback, factory, artifacts, tasks, train_req, opt_req, stop, sweep>>

\* ClassificationOut(..., model_used=prediction_result.get("model_used", model.name)),
\* or ErrorResponse when the status is "error"
classify_single ==
  /\ classify.pc = "respond"
  /\ classify.endpoint = "classify_single"
  /\ classify' = [classify EXCEPT
       !.pc = "returned",
       !.response = IF classify.prediction_result.status = "error"
                      THEN [schema |-> "ErrorResponse", model_used |-> "", empty |-> TRUE]
                      ELSE [schema |-> "ClassificationOut",
                            model_used |-> classify.prediction_result.model_used,
                            empty |-> FALSE]]
  /\ UNCHANGED <<models, jobs, age, dataset, limits, prediction, study, store, callback, factory, artifacts, tasks, train_req, opt_req, stop, sweep>>

\* results.append(ClassificationOut(..., model_used=model.name)); a failed prediction
\* is appended with empty results
classify_batch ==
  /\ classify.pc = "respond"
  /\ classify.endpoint = "classify_batch"
  /\ classify' = [classify EXCEPT
       !.pc = "returned",
       !.response = [schema |-> "ClassificationOut", model_used |-> "name",
                     empty |-> classify.prediction_result.status # "success"]]
  /\ UNCHANGED <<models, jobs, age, dataset, limits, prediction, study, store, callback, factory, artifacts, tasks, train_req, opt_req, stop, sweep>>

InitClassify ==
  /\ InitOrchestration([tasks |-> MaxTasks, concurrency |-> CELERY_CONCURRENCY,
                        requests |-> MaxRequests])
  /\ dataset = [m \in ModelIds |-> "ok"]
  /\ prediction = IdlePrediction
  /\ study = IdleStudy
  /\ store = IdleStore
  /\ callback = IdleCallback
  /\ classify \in {NewClassify(e, x[1], x[2], x[3], d, x[4], x[5]) :
                     e \in Endpoints, d \in BertDirs,
                     x \in BOOLEAN \X BOOLEAN \X BOOLEAN \X BOOLEAN \X BOOLEAN}
  /\ factory = IdleFactory

NextClassify ==
  \/ predict_domains_check_path
  \/ predict_domains_use_model
  \/ predict_domains_fallback
  \/ classify_single
  \/ classify_batch

SpecClassify == InitClassify /\ [][NextClassify]_vars

(***************************************************************************)
(* Claims                                                                  *)
(***************************************************************************)

\* C1 (as claimed): once a TrainingJob's status is completed, failed or cancelled,
\* no step of any operation changes that Job's status again.
C1_TerminalStatusIsFinal ==
  [][\A j \in JobIds : jobs[j].status \in TerminalStatuses => jobs'[j].status = jobs[j].status]_vars

\* C2: a start_training request that finds the Model in status training is rejected
\* in that step, dispatching no task and inserting no Job; and in every reachable
\* state each Model has at most one TrainingJob in pending or running.
AtMostOneActiveJob ==
  \A m \in ModelIds : Cardinality({j \in JobsOf(m) : jobs[j].status \in ActiveStatuses}) <= 1
RejectedWhileTraining ==
  \A r \in RequestSlots :
    (/\ train_req[r].pc = "idle"
     /\ train_req'[r].pc # "idle"
     /\ models[train_req'[r].model].status = "training")
      => /\ train_req'[r].pc = "return"
         /\ train_req'[r].outcome = "already_training"
         /\ tasks' = tasks
         /\ jobs' = jobs
C2_SecondStartRejected == []AtMostOneActiveJob /\ [][RejectedWhileTraining]_vars

\* C2 witness: a request has just been refused as already training while the
\* Model's Job is pending or running.
C2_Witness ==
  \E r \in RequestSlots :
    /\ train_req[r].pc = "return"
    /\ train_req[r].outcome = "already_training"
    /\ \E j \in JobIds : jobs[j].status \in ActiveStatuses

\* C3 (as claimed): start_model_training's terminal writes apply only while the Job
\* is still running: no step takes a cancelled Job to completed, and the worker
\* never marks a Model trained while that Model's Job is cancelled.
C3_CancelledNeverCompleted ==
  [][/\ \A j \in JobIds : jobs[j].status = "cancelled" => jobs'[j].status # "completed"
     /\ \A t \in TaskIds :
          (tasks[t].pc = "finish_model" /\ models'[tasks[t].model].status = "trained")
            => jobs[tasks[t].job_id].status # "cancelled"]_vars

\* C4 (as claimed): the sweep and stop-training write a Job and its Model only if
\* the stored Job status is still pending or running at the moment of the write.
C4_OutOfBandWritesGuarded ==
  [][/\ cleanup_stuck_training_jobs_save_job /\ jobs' # jobs
          => jobs[Head(sweep.stuck_jobs).id].status \in ActiveStatuses
     /\ cleanup_stuck_training_jobs_save_model
          => jobs[Head(sweep.stuck_jobs).id].status \notin {"completed", "cancelled"}
     /\ stop_training_save_job => jobs[stop.job_id].status \in ActiveStatuses
     /\ stop_training_save_model => jobs[stop.job_id].status \notin {"completed", "failed"}]_vars

\* C5: one pass of the sweep takes up every Job that is pending or running and older
\* than the threshold; each of them whose Celery task id is absent from the active
\* set is written failed (message, completion time) and its Model failed; each whose
\* task id is in the active set is left as it is, Job and Model; and the pass ends
\* only when the list is exhausted.
SweepStep(pc) == sweep.pc = pc /\ sweep' # sweep
SweepIds(sw) == {sw.stuck_jobs[i].id : i \in 1..Len(sw.stuck_jobs)}
SweepPassReclaims ==
  /\ SweepStep("fetch")
       => SweepIds(sweep') = {j \in JobIds : /\ jobs[j].status \in ActiveStatuses
                                             /\ age[j] >= sweep.hours}
  /\ SweepStep("save_job")
       => LET cur == Head(sweep.stuck_jobs) IN
            IF cur.job.celery_task_id \notin sweep.active_task_ids
              THEN /\ jobs'[cur.id].status = "failed"
                   /\ jobs'[cur.id].error_message = "stuck_cleaned_up"
                   /\ jobs'[cur.id].completed_at
                   /\ sweep'.pc = "save_model"
              ELSE /\ jobs' = jobs
                   /\ models' = models
                   /\ SweepIds(sweep') = SweepIds(sweep) \ {cur.id}
  /\ SweepStep("save_model")
       => /\ models'[Head(sweep.stuck_jobs).job.model].status = "failed"
          /\ SweepIds(sweep') = SweepIds(sweep) \ {Head(sweep.stuck_jobs).id}
  /\ (sweep.pc \in {"save_job", "save_model"} /\ sweep'.pc = "idle")
       => Len(sweep.stuck_jobs) = 1
C5_SweepReclaimsInactive == [][SweepPassReclaims]_vars

\* C5 witness: the sweep has written failed to a stuck Job whose task was not in
\* the active set and is about to write its Model.
C5_Witness ==
  /\ sweep.pc = "save_model"
  /\ Head(sweep.stuck_jobs).job.celery_task_id \notin sweep.active_task_ids
  /\ jobs[Head(sweep.stuck_jobs).id].status = "failed"
  /\ jobs[Head(sweep.stuck_jobs).id].error_message = "stuck_cleaned_up"

\* C6 (as claimed): after stop-training has cancelled a Job that it read as pending,
\* that Job is not seen running, whatever the already dispatched task does.
StopHasSavedJob == stop.pc = "save_model" \/ (stop.via = "api" /\ stop.pc = "revoke")
C6_PendingCancelNeverRuns ==
  (StopHasSavedJob /\ stop.training_job.status = "pending")
    => jobs[stop.job_id].status # "running"

\* the pcs of the except-Exception clause of start_model_training
FailurePcs == {"failed_get_model", "failed_get_job", "failed_save_job", "failed_save_model"}

\* the writes of that clause: the Job failed with message and traceback, then the
\* Model failed, then the task returns an error result instead of raising
HandlerWrites ==
  \A t \in TaskIds :
    /\ (tasks[t].pc = "failed_save_job" /\ tasks'[t].pc = "failed_save_model")
         => /\ jobs'[tasks[t].job_id].status = "failed"
            /\ jobs'[tasks[t].job_id].error_message # ""
            /\ jobs'[tasks[t].job_id].traceback
            /\ jobs'[tasks[t].job_id].completed_at
    /\ (tasks[t].pc = "failed_save_model" /\ tasks'[t].pc \notin {"failed_save_model", "dead"})
         => /\ models'[tasks[t].model].status = "failed"
            /\ tasks'[t].pc = "done"
            /\ tasks'[t].result = "error"

C8_TrainedHasArtifact ==
  \A m \in ModelIds :
    models[m].is_trained => models[m].model_path /\ models[m].status \in {"trained", "deployed"}

\* C9: a Model whose dataset has no sample, or no labelled sample, is never trained:
\* its training task never gets past the sample check, never ends in success, no
\* artifact is written, the Model is never is_trained or trained; the task ends in
\* the failure clause, which writes the Job failed and the Model failed.
NeverTrainedOnBadDataset ==
  \A m \in ModelIds :
    dataset[m] # "ok"
      => /\ ~models[m].is_trained
         /\ models[m].status \notin {"trained", "deployed"}
         /\ ~models[m].model_path
         /\ m \notin artifacts
         /\ \A j \in JobsOf(m) : jobs[j].status # "completed"
         /\ \A t \in TaskIds :
              (tasks[t].kind = "train" /\ tasks[t].model = m)
                => /\ tasks[t].pc \notin {"save_total_epochs", "train", "save_model",
                                          "finish_model", "finish_job"}
                   /\ tasks[t].result # "success"
BadDatasetFails ==
  \A t \in TaskIds :
    (tasks[t].kind = "train" /\ dataset[tasks[t].model] # "ok")
      => /\ (tasks[t].pc = "load_samples" /\ tasks'[t].pc \notin {"load_samples", "dead"})
              => tasks'[t].pc = "failed_get_model" /\ tasks'[t].exc = dataset[tasks[t].model]
         /\ (tasks[t].pc = "failed_save_job" /\ tasks'[t].pc = "failed_save_model")
              => jobs'[tasks[t].job_id].status = "failed"
         /\ (tasks[t].pc = "failed_save_model" /\ tasks'[t].pc = "done")
              => models'[tasks[t].model].status = "failed" /\ tasks'[t].result = "error"
C9_EmptyDatasetFails == []NeverTrainedOnBadDataset /\ [][BadDatasetFails]_vars

\* C9 witness: the task of a Model with an empty or unlabelled dataset has ended
\* with an error result, Job failed, Model failed.
C9_Witness ==
  \E t \in TaskIds :
    /\ tasks[t].kind = "train" /\ tasks[t].pc = "done" /\ tasks[t].result = "error"
    /\ dataset[tasks[t].model] # "ok"
    /\ models[tasks[t].model].status = "failed"
    /\ \E j \in JobsOf(tasks[t].model) : jobs[j].status = "failed"

\* C10: a task whose worker died takes no further step, and while every task of a
\* Model is dead its running Job is moved out of running by the sweep only; with the
\* sweep run again and again, every Job that is pending or running is eventually
\* terminal, and a running Job whose tasks are all dead and whose Model cannot be
\* started again is eventually failed with its Model failed.
ActiveJob(m) == \E j \in JobsOf(m) : jobs[j].status \in ActiveStatuses
TerminalJob(m) == \E j \in JobsOf(m) : jobs[j].status \in TerminalStatuses
TasksOf(m) == {t \in TaskIds : tasks[t].kind = "train" /\ tasks[t].model = m}
Orphaned(m) ==
  /\ \E j \in JobsOf(m) : jobs[j].status = "running"
  /\ TasksOf(m) # {}
  /\ \A t \in TasksOf(m) : tasks[t].pc = "dead"
DeadStaysUntilObserved ==
  /\ \A t \in TaskIds : tasks[t].pc = "dead" => tasks'[t] = tasks[t]
  /\ \A m \in ModelIds :
       (Orphaned(m) /\ \E j \in JobsOf(m) : jobs'[j].status # "running")
         => sweep.pc = "save_job" /\ sweep' # sweep
C10_DeadWorkerReclaimed ==
  /\ [][DeadStaysUntilObserved]_vars
  /\ \A m \in ModelIds : ActiveJob(m) ~> TerminalJob(m)
  /\ \A m \in ModelIds :
       (Orphaned(m) /\ ~TaskIdLeft /\ \A r \in RequestSlots : train_req[r].pc = "idle")
         ~> (\E j \in JobsOf(m) : jobs[j].status = "failed" /\ models[m].status = "failed")

\* C10 witness: the worker of a running Job is dead, and the sweep has just written
\* the Job failed and the Model failed.
C10_Witness ==
  \E m \in ModelIds :
    /\ TasksOf(m) # {}
    /\ \A t \in TasksOf(m) : tasks[t].pc = "dead"
    /\ \E j \in JobsOf(m) : jobs[j].status = "failed" /\ jobs[j].error_message = "stuck_cleaned_up"
    /\ models[m].status = "failed"
    /\ sweep.pc = "idle"

\* C11 (as claimed): for a non-empty text and a non-empty candidate label list the
\* fallback predictor always returns a prediction result (never an error outcome),
\* flagged fallback.
C11_FallbackAlwaysSucceeds ==
  (/\ prediction.variant = "fallback" /\ prediction.pc = "returned"
   /\ prediction.title_len >= 1 /\ prediction.all_labels # <<>>)
    => prediction.status = "success" /\ prediction.fallback

\* the set of labels a call's classifier predicts from the call's scores at threshold t
PredictedAt(call, t) ==
  Range(CASE call.variant = "transformer" ->
               TransformerClassifier_predict(call.all_labels, call.probs, t).predicted_domains
          [] call.variant = "traditional" ->
               TraditionalMLClassifier_predict(call.all_labels, call.probs, t).predicted_domains
          [] call.variant = "hybrid" ->
               HybridEnsembleClassifier_predict(call.all_labels, call.probs, call.trad_probs,
                                                call.weights, t).predicted_domains
          [] call.variant = "fallback" ->
               FallbackSelect(AvailableDomains(call.all_labels), call.result.all_scores,
                              t).predicted_domains)

ThresholdVariants == {"transformer", "traditional", "hybrid", "fallback"}
Predicted ==
  /\ prediction.variant \in ThresholdVariants
  /\ prediction.pc \in {"scored", "returned"}
  /\ prediction.status # "error"

\* C12: for a fixed score vector and two thresholds t1 < t2, the labels predicted at t2
\* are among the labels predicted at t1; for the transformer, feature-based and ensemble
\* predict operations and for the fallback with its best-label-above-the-floor rule;
\* the stored result is the one of the call's own threshold.
C12_ThresholdMonotone ==
  Predicted =>
    /\ Range(prediction.result.predicted_domains) = PredictedAt(prediction, prediction.threshold)
    /\ \A t1, t2 \in Thresholds :
         t1 < t2 => PredictedAt(prediction, t2) \subseteq PredictedAt(prediction, t1)

\* the fallback emitted its best label, which is below the threshold, and a lower
\* threshold admits that label and another
C12_Witness ==
  /\ Predicted /\ prediction.variant = "fallback"
  /\ Len(prediction.result.predicted_domains) = 1
  /\ prediction.result.all_scores[prediction.result.predicted_domains[1]] < prediction.threshold
  /\ \E t1 \in Thresholds :
       /\ t1 < prediction.threshold
       /\ Cardinality(PredictedAt(prediction, t1)) >= 2

\* C13 (as claimed): a search invoked with n_trials = N returns exactly N trial records
\* and a best_value equal to the maximum of the recorded scores.
C13_ExactlyNTrials ==
  study.pc = "returned" =>
    /\ study.result.n_trials = study.n_trials
    /\ Len(study.trials) = study.n_trials
    /\ study.result.best_value = best_value(study.trials)

\* C13 (amended): a search invoked with n_trials = N runs at most N new trials, exactly
\* N unless its timeout ends it earlier, and at least one; every one is recorded with a
\* score (0 for a failed one); the n_trials it returns is the number of trials recorded
\* in the study, those of earlier calls on the same study name included, and best_value
\* is the maximum of all the recorded scores.
C13_TrialsOfTheStudy ==
  study.pc = "returned" =>
    /\ study.ran >= 1 /\ study.ran <= study.n_trials
    /\ ~study.timeout => study.ran = study.n_trials
    /\ Len(study.trials) = study.loaded + study.ran
    /\ \A i \in DOMAIN study.trials :
         /\ study.trials[i].state = "COMPLETE"
         /\ i \in study.failed => study.trials[i].value = 0
    /\ study.result.n_trials = Len(study.trials)
    /\ \A i \in DOMAIN study.trials : study.trials[i].value <= study.result.best_value
    /\ \E i \in DOMAIN study.trials : study.trials[i].value = study.result.best_value

\* a second search on the same study name returned, cut short by its timeout
C13_Witness ==
  /\ study.pc = "returned"
  /\ study.loaded >= 1
  /\ study.ran < study.n_trials
  /\ study.result.n_trials > study.n_trials
  /\ study.failed # {}

\* the step is a trial of the search whose model construction or training raised
FailedTrialStep ==
  /\ study.pc = "optimizing"
  /\ Len(study'.trials) = Len(study.trials) + 1
  /\ \/ Len(study'.trials) \in study'.failed
     \/ study'.trials[Len(study'.trials)].state = "FAIL"

\* C14: a trial whose model construction or training raises is recorded with score 0
\* and the search goes on to its next trial or to its normal end, it does not abort;
\* for the objective of every model family.
C14_FailedTrialScoresZero ==
  [][FailedTrialStep =>
       /\ study'.trials = Append(study.trials, [state |-> "COMPLETE", value |-> 0])
       /\ study'.pc = "optimizing"]_vars

FamilyOf(model_type) ==
  CASE model_type \in TransformerObjectiveTypes \ {"gemma2-2b"} -> "sequence-model"
    [] model_type = "gemma2-2b" -> "generative"
    [] model_type = "traditional" -> "feature-based"
    [] model_type = "hybrid" -> "ensemble"
    [] OTHER -> "none"

\* a search returned whose first new trial failed and was followed by another trial
C14_WitnessOf(family) ==
  /\ study.pc = "returned"
  /\ FamilyOf(study.model_type) = family
  /\ \E i \in DOMAIN study.trials :
       /\ i \in study.failed /\ study.trials[i].value = 0
       /\ i < Len(study.trials)
       /\ family # "sequence-model" => study.trials[i + 1].value > 0
C14_Witness ==
  \E family \in {"sequence-model", "generative", "feature-based", "ensemble"} :
    C14_WitnessOf(family)

IsPrefix(s, t) == Len(s) <= Len(t) /\ \A i \in DOMAIN s : s[i] = t[i]
NamedStudy == study.study_name # ""

\* C15: a search called again with the same study name attaches to the existing study:
\* the trials recorded by earlier calls are all kept (create_study hands them back, no
\* step removes or alters one), new trials are added after them, and the best value a
\* call reports is never lower than the one the call before it reported.
C15_StudyResumed ==
  [][NamedStudy =>
       /\ IsPrefix(study.trials, study'.trials)
       /\ (study.pc \in {"idle", "returned", "raised"} /\ study'.pc = "optimizing")
            => study'.trials = study.trials /\ study'.loaded = Len(study.trials)
       /\ (study'.pc = "returned" /\ study.pc = "optimizing")
            => study'.result.best_value >= study.result.best_value]_vars

\* the second search of a study returned a better value than the first had
C15_Witness ==
  /\ NamedStudy /\ study.pc = "returned" /\ study.calls = 2
  /\ study.loaded >= 1 /\ Len(study.trials) > study.loaded
  /\ \A i \in 1..study.loaded : study.result.best_value > study.trials[i].value

\* C16 (as claimed): for every supported family, after a training run whose save
\* succeeded the stored artifact reference names a path that exists and the load of
\* the prediction path succeeds, restoring the label vocabulary (for the ensemble:
\* both sub-classifiers and the weights).
C16_SavedArtifactLoads ==
  (store.pc \in {"loaded", "fallback"} /\ store.saved) =>
    /\ Exists(store.files, store.model_path)
    /\ store.pc = "loaded"
    /\ store.loaded.all_labels = store.all_labels
    /\ store.model_type = "hybrid" =>
         /\ store.loaded.parts = {"transformer", "traditional"}
         /\ store.loaded.weights = store.weights

ClassifierVariants == {"transformer", "traditional", "hybrid", "gemma"}

\* C17 (as claimed): in the result of every classifier variant's predict the predicted
\* labels are exactly the vocabulary labels whose score is at least the threshold, the
\* keys of the confidence map are exactly the predicted labels, and all_scores has one
\* entry for every vocabulary label.
C17_PredictResultShape ==
  (prediction.pc = "returned" /\ prediction.variant \in ClassifierVariants) =>
    LET result == prediction.result
        vocabulary == Range(prediction.all_labels)
    IN /\ DOMAIN result.all_scores = vocabulary
       /\ Range(result.predicted_domains) =
            {l \in vocabulary : result.all_scores[l] >= prediction.threshold}
       /\ DOMAIN result.confidence_scores = Range(result.predicted_domains)

\* request r, which found the Model failed when it began, leaves the
\* TrainingJob.objects.create step while the Model's Job is failed
RetryCreatesJob(r) ==
  /\ train_req[r].pc = "create_job"
  /\ train_req[r].model_row.status = "failed"
  /\ train_req'[r].pc # "create_job"
  /\ \E j \in JobsOf(train_req[r].model) : jobs[j].status = "failed"

\* C18 (as claimed): after a Job has ended failed the Model is retrainable: the next
\* start_training is accepted and succeeds, the new attempt gets a new Job, and the
\* failed Job stays as it is, as history.
C18_FailedModelRetrainable ==
  [][\A r \in RequestSlots :
       RetryCreatesJob(r) =>
         /\ train_req'[r].pc = "mark_training"
         /\ Len(jobs') = Len(jobs) + 1
         /\ jobs'[Len(jobs')] = NewTrainingJob(train_req[r].model, train_req[r].task)
         /\ \A j \in JobIds : jobs'[j] = jobs[j]]_vars

\* C19 (as claimed): the progress percentage of a Job never decreases: no operation
\* (completion, failure, cancellation, reclamation, restarted run) stores a lower value
\* than the one stored.
C19_ProgressMonotone ==
  [][\A j \in JobIds : jobs'[j].progress_percentage >= jobs[j].progress_percentage]_vars

\* no request, stop or sweep is in flight and every task dispatched has run to its
\* end: none is waiting, none is running, none was killed on the way
Quiescent ==
  /\ \A r \in RequestSlots : train_req[r].pc = "idle"
  /\ opt_req.pc = "idle"
  /\ stop.pc = "idle"
  /\ sweep.pc = "idle"
  /\ \A t \in TaskIds : tasks[t].pc \in {"none", "done"}

\* C20 (as claimed): whenever no operation is part-way through its writes, a Model's
\* status is training exactly when its Job is pending or running, in every interleaving
\* of start_training, the worker, stop and the sweep.
C20_TrainingIffActiveJob ==
  Quiescent =>
    \A m \in ModelIds :
      models[m].status = "training" <=> \E j \in JobsOf(m) : jobs[j].status \in ActiveStatuses


\* C21: when the query of the active tasks raises or gets no reply, the pass is not
\* given up: it goes on to fetch every Job that is pending or running and older than
\* the threshold, and writes each of them failed (message, completion time) and its
\* Model failed, by age alone.
SweepFailedQueryReclaims ==
  /\ SweepStep("inspect") => sweep'.pc = "fetch"
  /\ (SweepStep("inspect") /\ sweep'.inspect_failed) => sweep'.active_task_ids = {}
  /\ (SweepStep("fetch") /\ sweep.inspect_failed)
       => /\ SweepIds(sweep') = StuckJobIds(sweep.hours)
          /\ sweep'.pc = IF StuckJobIds(sweep.hours) = {} THEN "idle" ELSE "save_job"
  /\ (SweepStep("save_job") /\ sweep.inspect_failed)
       => LET cur == Head(sweep.stuck_jobs) IN
            /\ jobs'[cur.id].status = "failed"
            /\ jobs'[cur.id].error_message = "stuck_cleaned_up"
            /\ jobs'[cur.id].completed_at
            /\ sweep'.pc = "save_model"
  /\ (SweepStep("save_model") /\ sweep.inspect_failed)
       => models'[Head(sweep.stuck_jobs).job.model].status = "failed"
C21_FailedQueryReclaimsByAge == [][SweepFailedQueryReclaims]_vars

\* C21 witness: the query failed while a worker was executing the task of a stuck
\* Job, and the pass has written that Job failed and is about to write its Model.
C21_Witness ==
  /\ sweep.pc = "save_model"
  /\ sweep.inspect_failed
  /\ Executing(Head(sweep.stuck_jobs).job.celery_task_id)
  /\ jobs[Head(sweep.stuck_jobs).id].status = "failed"

\* C22 (as claimed): when the endpoint's creation of the Job and the worker's
\* get_or_create race for the same Model, exactly one Job row exists afterwards and
\* the endpoint, when it comes second (the row already carries the id of the task it
\* has just dispatched), attaches to that row and does not fail.
C22_RacingCreateNeverFails ==
  [][\A r \in RequestSlots :
       (/\ train_req[r].pc = "create_job"
        /\ train_req'[r] # train_req[r]
        /\ train_req[r].model_row.status = "created")
         => /\ Cardinality({j \in 1..Len(jobs') : jobs'[j].model = train_req[r].model}) = 1
            /\ (\E j \in JobsOf(train_req[r].model) :
                  jobs[j].celery_task_id = train_req[r].task)
                 => train_req'[r].outcome # "training_error"]_vars

\* C23 (as claimed): during a training run the progress callback is invoked at the end
\* of every epoch (once for a family without epochs) and stores completed/total x 100
\* in the Job; so when ml_model.train(...) returns, the last invocation has left the
\* Job, in the task's object and in the stored row, at 100 percent.
C23_CallbackInvokedEveryEpoch ==
  [][\A t \in TaskIds :
       (tasks[t].pc = "train" /\ tasks'[t].pc = "save_model")
         => /\ tasks'[t].training_job.progress_percentage = 100
            /\ jobs'[tasks[t].job_id].progress_percentage = 100]_vars

KnownFamilies ==
  {"bert", "biobert", "clinicalbert", "scibert", "pubmedbert", "gemma2-2b", "traditional",
   "hybrid"}
C27_FactoryFailsOnlyOnUnknownFamily ==
  factory.pc = "returned"
    => (factory.result.raised <=> factory.model_type \notin KnownFamilies)

\* C25 (as claimed): predict_domains on a trained Model takes the fallback whenever the
\* Model has no artifact reference, the artifact is missing on disk, or loading or
\* predicting raises; and in what the caller of either endpoint receives, a result is
\* labelled as fallback exactly when the fallback produced it.
ArtifactUnusable ==
  \/ ~classify.model_path
  \/ ~classify.exists
  \/ classify.use_raises
C25_FallbackLabelledToCaller ==
  classify.pc = "returned"
    => /\ ArtifactUnusable => classify.path = "fallback"
       /\ (classify.response.schema = "ClassificationOut" /\ ~classify.response.empty)
            => (classify.response.model_used = "name (fallback)"
                  <=> classify.path = "fallback")

\* C26 (as claimed): in every reachable state the completion time of a Job is null
\* while the Job is pending or running and set once it is completed, failed or
\* cancelled.
C26_CompletedAtIffTerminal ==
  \A j \in JobIds :
    /\ jobs[j].status \in ActiveStatuses => ~jobs[j].completed_at
    /\ jobs[j].status \in TerminalStatuses => jobs[j].completed_at

\* C28 (as claimed): whatever the interleaving of two concurrent start_training
\* requests for the same Model, at most one training task is dispatched for it: no
\* two tasks of one Model are waiting or executing at the same time.
LiveTasksOf(m) ==
  {t \in TaskIds : /\ tasks[t].kind = "train" /\ tasks[t].model = m
                   /\ tasks[t].pc \notin {"none", "done", "dead"}}
C28_OneLiveTaskPerModel == \A m \in ModelIds : Cardinality(LiveTasksOf(m)) <= 1

\* C29 (as claimed): with the sweep scheduled for ever, every Model that enters
\* training eventually leaves it (trained, failed or created), even when the worker
\* running start_model_training or optimize_hyperparameters dies without raising.
C29_TrainingEventuallyLeft ==
  \A m \in ModelIds : (models[m].status = "training") ~> (models[m].status # "training")

\* C30: stop-training (endpoint or command) for a Model that has no pending or running
\* Job - no Job at all, or a completed, failed or cancelled one - ends with the
\* not-found outcome; from its lookup to its return it sends no termination signal
\* and writes no Job row and no Model row.
StopStep == stop' # stop
StopLeavesRows == models' = models /\ jobs' = jobs /\ tasks' = tasks
StopWithoutActiveJob ==
  /\ (StopStep /\ stop.pc = "idle") => StopLeavesRows
  /\ (/\ StopStep
      /\ stop.pc = "get_job"
      /\ \A j \in JobsOf(stop.model) : jobs[j].status \in TerminalStatuses)
       => /\ stop'.pc = "return"
          /\ stop'.outcome = "not_found"
          /\ StopLeavesRows
  /\ (StopStep /\ stop.pc = "return" /\ stop.outcome = "not_found")
       => /\ stop' = IdleStop
          /\ StopLeavesRows
C30_StopWithoutActiveJobIsNoOp == [][StopWithoutActiveJob]_vars

\* C30 witness: stop-training is about to answer not-found for a Model whose only Job
\* is terminal, and no task has been revoked.
C30_Witness ==
  /\ stop.pc = "return"
  /\ stop.outcome = "not_found"
  /\ \E m \in ModelIds : /\ JobsOf(m) # {}
                         /\ \A j \in JobsOf(m) : jobs[j].status \in TerminalStatuses
  /\ \A t \in TaskIds : tasks[t].pc # "dead"

====
